---------------------------- MODULE Spec2Model ----------------------------
(***************************************************************************)
(* A model of collector.py: the ingestion / dedup / keyword-gate /         *)
(* classification / scoring pipeline of the AI capex risk tracker.         *)
(*                                                                         *)
(* Texts are sequences of tokens (words, punctuation marks, bracketed      *)
(* segments), URLs are records of their parsed parts, dates are day        *)
(* numbers.  Scores are fixed-point integers.                              *)
(***************************************************************************)
EXTENDS Integers, Sequences, FiniteSets, TLC

(***************************************************************************)
(* Bounds of the model                                                     *)
(***************************************************************************)
\* number of invocations of main() in a behaviour
MaxRuns == 2
\* number of feed queries issued per run (a prefix of the configured list)
MaxQueries == 2
\* largest classification budget the configuration is drawn from
MaxBudget == 1
\* day number of the first run
FirstDay == 60

(***************************************************************************)
(* Configuration (collector.py, "Config")                                  *)
(***************************************************************************)
ARTICLES_RETENTION_DAYS == 45
MIN_CONFIDENCE == 60
\* the absolute age ceiling applied at fetch time
MAX_AGE_DAYS == 21
\* entries kept per feed (50 in prod mode, 5 in fast mode; scaled)
MAX_ENTRIES_PER_FEED == 2
\* the per-indicator cap on successful calls that fast mode adds
MAX_LLM_CALLS_PER_ITEM == 2
PRIMARY_MODEL == "gpt-5-mini"

ITEM_KEYS ==
  << "ai_price_cuts", "mgmt_tone_softening", "capex_up_revenue_down",
     "dc_vacancy", "power_permit_delays", "market_positioning" >>

Items == { ITEM_KEYS[i] : i \in 1..Len(ITEM_KEYS) }

\* weights that sum to 1.1
WEIGHTS_Heavy ==
  [ ai_price_cuts |-> 20, mgmt_tone_softening |-> 15,
    capex_up_revenue_down |-> 20, dc_vacancy |-> 15,
    power_permit_delays |-> 20, market_positioning |-> 20 ]

\* the weights in hundredths
WEIGHTS ==
  [ ai_price_cuts |-> 20, mgmt_tone_softening |-> 15,
    capex_up_revenue_down |-> 20, dc_vacancy |-> 15,
    power_permit_delays |-> 10, market_positioning |-> 20 ]

\* one element per query, the indicator it belongs to, in the order
\* urls.items() yields them
RSS_BASE_QUERIES(fast) ==
  IF fast
  THEN << "power_permit_delays", "dc_vacancy", "ai_price_cuts",
          "capex_up_revenue_down", "mgmt_tone_softening",
          "market_positioning" >>
  ELSE << "power_permit_delays", "power_permit_delays", "power_permit_delays",
          "dc_vacancy", "dc_vacancy", "ai_price_cuts", "ai_price_cuts",
          "capex_up_revenue_down", "capex_up_revenue_down",
          "mgmt_tone_softening", "mgmt_tone_softening",
          "market_positioning", "market_positioning" >>

\* the queries a run of the model issues
build_rss_urls(fast) ==
  LET all == RSS_BASE_QUERIES(fast)
  IN  SubSeq(all, 1, IF MaxQueries < Len(all) THEN MaxQueries ELSE Len(all))

\* each pattern is the sequence of words between its \b anchors
STRONG_KEYWORDS(item) ==
  CASE item = "power_permit_delays" ->
         { <<"delay">>, <<"backlog">>, <<"permitting">>, <<"interconnection">>,
           <<"queue">>, <<"power", "constraint">>, <<"grid">>,
           <<"transformer", "shortage">> }
    [] item = "dc_vacancy" ->
         { <<"vacancy">>, <<"oversupply">>, <<"concession">>, <<"incentive">>,
           <<"lease", "concessions">>, <<"empty", "capacity">>,
           <<"record-low", "vacancy">> }
    [] item = "ai_price_cuts" ->
         { <<"price", "cut">>, <<"discount">>, <<"credit">>,
           <<"reduce", "prices">>, <<"lower", "pricing">>, <<"cheaper">> }
    [] item = "capex_up_revenue_down" ->
         { <<"capex">>, <<"capital", "spending">>,
           <<"cloud", "growth", "slowdown">>, <<"revenue", "slowdown">>,
           <<"spending", "surge">>, <<"capex", "risks">> }
    [] item = "mgmt_tone_softening" ->
         { <<"easing">>, <<"lead", "times">>, <<"capacity", "constraint">>,
           <<"supply", "improving">>, <<"more", "available">> }
    [] item = "market_positioning" ->
         { <<"overinvestment">>, <<"bubble">>, <<"concerns">>, <<"survey">>,
           <<"fund", "manager">>, <<"positioning">> }
    [] OTHER -> {}

(***************************************************************************)
(* LLM schema                                                              *)
(***************************************************************************)
SchemaFields == { "relevant", "strength", "confidence", "reason", "signals" }

\* A JSON value as json.loads returns it: an object with the fields `has`
\* (the values of relevant, strength, confidence are meaningful only when
\* the field is present), or a value that is no object.
LLM_SCHEMA(r) ==
  /\ r.kind = "object"
  /\ r.has = SchemaFields
  /\ r.relevant \in BOOLEAN
  /\ r.strength \in 0..4
  /\ r.confidence \in 0..100

\* the absent "llm" field of an article
NoLLM ==
  [ kind |-> "none", has |-> {}, relevant |-> FALSE, strength |-> 0,
    confidence |-> 0 ]

(***************************************************************************)
(* Text / URL utils                                                        *)
(***************************************************************************)
\* str.lower() on the tokens, hosts and schemes the model uses
LowerStr(s) ==
  CASE s = "Grid"  -> "grid"
    [] s = "Chip"  -> "chip"
    [] s = "HTTPS" -> "https"
    [] s = "X.com" -> "x.com"
    [] OTHER -> s

\* a segment in [...] or (...)
IsBracketed(tok) == tok \in { "[video]", "(update)" }

\* a character outside a-z, 0-9, Hangul and whitespace, standing alone
IsPunct(tok) == tok \in { "!", ":", "-" }

\* a run of whitespace beyond the single space that separates two tokens
IsSpace(tok) == tok = " "

\* str.strip() at the end of a text: the trailing whitespace goes
RECURSIVE RStrip(_)
RStrip(s) ==
  IF s # << >> /\ IsSpace(s[Len(s)]) THEN RStrip(SubSeq(s, 1, Len(s) - 1))
  ELSE s

\* lower(), strip() and the collapse of whitespace runs
normalize_text(s) ==
  LET t == SelectSeq(s, LAMBDA tok : ~IsSpace(tok))
  IN  [ i \in 1..Len(t) |-> LowerStr(t[i]) ]

normalize_title(title) ==
  SelectSeq(normalize_text(title),
            LAMBDA tok : ~IsBracketed(tok) /\ ~IsPunct(tok))

\* the empty link
NoLink ==
  [ scheme |-> "", host |-> "", path |-> <<>>, slash |-> FALSE,
    query |-> <<>>, frag |-> "" ]

TrackingKeys ==
  { "ref", "ref_src", "source", "fbclid", "gclid", "oc", "guccounter" }

\* kl.startswith("utm_")
IsUtm(k) == LowerStr(k) \in { "utm_source", "utm_medium", "utm_campaign" }

IsTracking(k) == IsUtm(LowerStr(k)) \/ LowerStr(k) \in TrackingKeys

KeepParams(q) == SelectSeq(q, LAMBDA kv : ~IsTracking(kv[1]))

\* The normalized URL string, as its parts.  `slash` is the trailing "/" of
\* the path; out.endswith("/") looks at the end of the whole string, which
\* is the end of the path only when no query parameter is kept.
normalize_url(url) ==
  IF url = NoLink THEN NoLink
  ELSE LET kept == KeepParams(url.query)
       IN  [ scheme |-> IF url.scheme = "" THEN "https"
                        ELSE LowerStr(url.scheme),
             host   |-> LowerStr(url.host),
             path   |-> url.path,
             slash  |-> IF kept = <<>> THEN FALSE ELSE url.slash,
             query  |-> kept,
             frag   |-> "" ]

\* a fingerprint of the title and the link as the feed gave it
norm_id_RawLink(title, link) ==
  << [title EXCEPT ![Len(title)] = RStrip(@)], link >>

\* sha256 of "title.strip()|normalized link", taken as injective; title is
\* the text "OVERALL|item_key|title" as its three parts, so that strip()
\* reaches the end of the last part only
norm_id(title, link) ==
  << [title EXCEPT ![Len(title)] = RStrip(@)], normalize_url(link) >>

dedup_key(title, link) ==
  LET link_norm == normalize_url(link)
  IN  IF link_norm # NoLink THEN << "L", link_norm, <<>> >>
      ELSE << "T", NoLink, normalize_title(title) >>

(***************************************************************************)
(* Date utils                                                              *)
(***************************************************************************)
\* a missing or unparseable "published" string
NoDate == -1

parse_pub_date(published, fallback) ==
  IF published # NoDate THEN published ELSE fallback

Max(a, b) == IF a >= b THEN a ELSE b

days_old_from_article(a, day) ==
  Max(0, day - parse_pub_date(a.published, a.fetched_at))

(***************************************************************************)
(* Scoring utils                                                           *)
(***************************************************************************)
\* a tie of the exact sum at half a tenth is rounded to the even tenth;
\* the float sum the code rounds may resolve such a tie either way
RoundTenth(hundredths) ==
  LET q == hundredths \div 10
      r == hundredths % 10
  IN  IF r < 5 THEN q
      ELSE IF r > 5 THEN q + 1
      ELSE IF q % 2 = 0 THEN q ELSE q + 1

RECURSIVE SumWeighted(_, _)
SumWeighted(scores, n) ==
  IF n = 0 THEN 0
  ELSE scores[ITEM_KEYS[n]] * WEIGHTS[ITEM_KEYS[n]] * 25
       + SumWeighted(scores, n - 1)

\* the composite score in tenths: round(100 * sum(score/4 * weight), 1)
calc_index(scores) == RoundTenth(SumWeighted(scores, Len(ITEM_KEYS)))

\* buckets whose 20 boundary belongs to the lower bucket
risk_bucket_LooseBoundary(score) ==
  IF score <= 200 THEN "low"
  ELSE IF score < 400 THEN "moderate"
  ELSE IF score < 600 THEN "caution"
  ELSE IF score < 800 THEN "warning"
  ELSE "danger"

\* score is in tenths
risk_bucket(score) ==
  IF score < 200 THEN "low"
  ELSE IF score < 400 THEN "moderate"
  ELSE IF score < 600 THEN "caution"
  ELSE IF score < 800 THEN "warning"
  ELSE "danger"

MatchesAt(text, pat, i) ==
  /\ i + Len(pat) - 1 <= Len(text)
  /\ \A j \in 1..Len(pat) : LowerStr(text[i + j - 1]) = pat[j]

strong_keyword_hit(item_key, text) ==
  IF \E pat \in STRONG_KEYWORDS(item_key) :
        \E i \in 1..Len(text) : MatchesAt(text, pat, i)
  THEN 1 ELSE 0

\* 0.85 ** days_old in millionths
DecayTable ==
  << 1000000, 850000, 722500, 614125, 522006, 443705, 377150, 320577,
     272491, 231617, 196874, 167343, 142242, 120905, 102770 >>

article_decay_weight(pub_date, day) ==
  LET days_old == Max(0, day - pub_date)
  IN  IF days_old > 14 THEN 0 ELSE DecayTable[days_old + 1]

\* in millionths
fresh_bonus_weight(pub_date, day) ==
  LET days_old == Max(0, day - pub_date)
  IN  IF days_old = 0 THEN 1000000
      ELSE IF days_old = 1 THEN 800000
      ELSE IF days_old = 2 THEN 500000
      ELSE 0

(***************************************************************************)
(* Article store helpers                                                   *)
(***************************************************************************)
\* the articles of a store: list(store.values())
Values(st) == { st[aid] : aid \in DOMAIN st }

Restrict(st, ids) == [ aid \in ids |-> st[aid] ]

ArticlePubDate(a) == parse_pub_date(a.published, a.fetched_at)

\* a value of a stored document that is not a JSON object (a number, a
\* string, null, a list)
NotADict == [ json |-> "scalar" ]

\* isinstance(x, dict)
IsDict(x) == "json" \notin DOMAIN x

\* a slip: > for >=, the boundary day is dropped
prune_articles_store_Strict(st, day) ==
  LET cutoff == day - ARTICLES_RETENTION_DAYS
      keep == { aid \in DOMAIN st :
                  IsDict(st[aid]) /\ ArticlePubDate(st[aid]) > cutoff }
  IN  [ kept |-> Restrict(st, keep),
        removed |-> Cardinality(DOMAIN st) - Cardinality(keep) ]

\* the store kept and the number of entries removed
prune_articles_store(st, day) ==
  LET cutoff == day - ARTICLES_RETENTION_DAYS
      keep == { aid \in DOMAIN st :
                  IsDict(st[aid]) /\ ArticlePubDate(st[aid]) >= cutoff }
  IN  [ kept |-> Restrict(st, keep),
        removed |-> Cardinality(DOMAIN st) - Cardinality(keep) ]

\* a slip: the dedup set starts empty in every run
build_existing_dedup_set_Forgetful(st) == {}

build_existing_dedup_set(st) ==
  { dedup_key(st[aid].title, st[aid].link) : aid \in DOMAIN st }

\* a slip: the confidence floor is not applied
is_relevant_NoFloor(a) ==
  /\ a.llm.kind = "object"
  /\ "relevant" \in a.llm.has /\ a.llm.relevant = TRUE

is_relevant(a) ==
  /\ a.llm.kind = "object"
  /\ "relevant" \in a.llm.has /\ a.llm.relevant = TRUE
  /\ (IF "confidence" \in a.llm.has THEN a.llm.confidence ELSE 0)
        >= MIN_CONFIDENCE

(***************************************************************************)
(* Scoring                                                                 *)
(***************************************************************************)
\* stands for a JSON value of a classification that int() raises for
\* (a text that is no number, null, a list)
NonInt == -1000

\* int(a["llm"].get("strength", 0))
Strength(a) == IF "strength" \in a.llm.has THEN a.llm.strength ELSE 0

relevant_articles(item_key, articles) ==
  { a \in articles : a.group = "OVERALL" /\ a.item = item_key /\ is_relevant(a) }

\* a slip: a window of 15 days
recent_14_Wide(item_key, articles, day) ==
  { a \in relevant_articles(item_key, articles) :
      LET days_old == day - ArticlePubDate(a)
      IN  0 <= days_old /\ days_old <= 15 }

recent_14(item_key, articles, day) ==
  { a \in relevant_articles(item_key, articles) :
      LET days_old == day - ArticlePubDate(a)
      IN  0 <= days_old /\ days_old <= 14 }

recent_3(item_key, articles, day) ==
  { a \in relevant_articles(item_key, articles) :
      LET days_old == day - ArticlePubDate(a)
      IN  0 <= days_old /\ days_old <= 2 }

\* the sum of the values of a function
RECURSIVE SumFn(_)
SumFn(f) ==
  IF DOMAIN f = {} THEN 0
  ELSE LET a == CHOOSE x \in DOMAIN f : TRUE
       IN  f[a] + SumFn([ x \in DOMAIN f \ {a} |-> f[x] ])

\* in millionths
decay_sum(item_key, articles, day) ==
  SumFn([ a \in recent_14(item_key, articles, day) |->
            Strength(a) * article_decay_weight(ArticlePubDate(a), day) ])

\* in millionths
fresh_sum(item_key, articles, day) ==
  SumFn([ a \in recent_3(item_key, articles, day) |->
            Strength(a) * fresh_bonus_weight(ArticlePubDate(a), day) ])

strong_hits(item_key, articles, day) ==
  SumFn([ a \in recent_14(item_key, articles, day) |->
            strong_keyword_hit(item_key, a.title) ])

\* 0.6 * fresh_sum + 0.4 * decay_sum (+ 0.5), in ten-millionths
raw_score(item_key, articles, day) ==
  6 * fresh_sum(item_key, articles, day)
  + 4 * decay_sum(item_key, articles, day)
  + (IF strong_hits(item_key, articles, day) >= 3 THEN 5000000 ELSE 0)

\* a quantization whose 1.5 boundary belongs to the lower interval
Quantize_LooseBoundary(raw) ==
  IF raw < 6000000 THEN 0
  ELSE IF raw <= 15000000 THEN 1
  ELSE IF raw < 25000000 THEN 2
  ELSE IF raw < 35000000 THEN 3
  ELSE 4

\* raw is in ten-millionths
Quantize(raw) ==
  IF raw < 6000000 THEN 0
  ELSE IF raw < 15000000 THEN 1
  ELSE IF raw < 25000000 THEN 2
  ELSE IF raw < 35000000 THEN 3
  ELSE 4

score_item(item_key, articles, day) ==
  Quantize(raw_score(item_key, articles, day))

item_meta(item_key, articles, day) ==
  [ recent3_count  |-> Cardinality(recent_3(item_key, articles, day)),
    recent14_count |-> Cardinality(recent_14(item_key, articles, day)),
    fresh_sum      |-> fresh_sum(item_key, articles, day),
    decay_sum      |-> decay_sum(item_key, articles, day),
    raw_score      |-> raw_score(item_key, articles, day),
    strong_hits14  |-> strong_hits(item_key, articles, day) ]

TOP_EVIDENCE == 8

\* int(a["llm"].get("confidence", 0)) of the evidence sort key
Confidence(a) == IF "confidence" \in a.llm.has THEN a.llm.confidence ELSE 0

\* ev_sort_key(b) > ev_sort_key(a)
EvAbove(b, a) ==
  \/ Strength(b) > Strength(a)
  \/ Strength(b) = Strength(a) /\ Confidence(b) > Confidence(a)
  \/ /\ Strength(b) = Strength(a) /\ Confidence(b) = Confidence(a)
     /\ ArticlePubDate(b) > ArticlePubDate(a)

\* the articles the evidence list may name: those of recent_14 with fewer
\* than TOP_EVIDENCE articles above them in the sort; equal keys are cut in
\* the order of the store
evidence(item_key, articles, day) ==
  LET r14 == recent_14(item_key, articles, day)
  IN  { a \in r14 :
          Cardinality({ b \in r14 : EvAbove(b, a) }) < TOP_EVIDENCE }

\* int(a["llm"].get("strength", 0)) raises for an article of the 14 days
ScoringRaises(articles, day) ==
  \E k \in Items : \E a \in recent_14(k, articles, day) :
    "strength" \in a.llm.has /\ a.llm.strength = NonInt

\* scores, meta, total and bucket of score_overall
score_overall(articles, day) ==
  LET scores == [ k \in Items |-> score_item(k, articles, day) ]
      total  == calc_index(scores)
  IN  [ scores |-> scores,
        meta   |-> [ k \in Items |-> item_meta(k, articles, day) ],
        total  |-> total,
        bucket |-> risk_bucket(total) ]

(***************************************************************************)
(* The environment: what the feed source and the classifier may deliver    *)
(***************************************************************************)
Url(host, path, query) ==
  [ scheme |-> "https", host |-> host, path |-> path, slash |-> FALSE,
    query |-> query, frag |-> "" ]

Entry(title, link, published, summary) ==
  [ title |-> title, link |-> link, published |-> published,
    summary |-> summary ]

\* a title with a power/permit keyword
EntryGrid ==
  Entry(<<"Grid", "delay">>, Url("x.com", <<"a">>, <<>>), FirstDay, <<>>)
\* the same article behind a tracking link, without a parseable date
EntryGridTracked ==
  Entry(<<"Grid", "delay">>,
        [ scheme |-> "HTTPS", host |-> "X.com", path |-> <<"a">>,
          slash |-> TRUE, query |-> << <<"utm_source", "rss">> >>,
          frag |-> "top" ],
        NoDate, <<>>)
\* no link; no power/permit keyword; a vacancy keyword in the summary only;
\* published exactly MAX_AGE_DAYS before the first run
EntryChip ==
  Entry(<<"chip", "news", "!">>, NoLink, FirstDay - MAX_AGE_DAYS,
        <<"vacancy">>)
\* published one day before the age ceiling of the first run
EntryOld ==
  Entry(<<"queue">>, Url("x.com", <<"c">>, <<>>),
        FirstDay - MAX_AGE_DAYS - 1, <<>>)
\* neither title nor link
EntryEmpty == Entry(<<>>, NoLink, FirstDay, <<>>)

FeedEntries ==
  { EntryGrid, EntryGridTracked, EntryChip, EntryOld, EntryEmpty }

\* an article as the run of day `fetched` stores it, before classification
StoredArticle(item_key, title, published, fetched) ==
  LET e == Entry(title, NoLink, published, <<>>)
      aid == norm_id(<< "OVERALL", item_key, title >>, NoLink)
  IN  [ id |-> aid, group |-> "OVERALL", item |-> item_key,
        title |-> e.title, title_norm |-> normalize_title(e.title),
        link |-> e.link, link_norm |-> normalize_url(e.link),
        published |-> e.published, summary |-> e.summary,
        fetched_at |-> fetched, llm |-> NoLLM, llm_model |-> "",
        llm_classified_at |-> NoDate, llm_skipped |-> "", llm_error |-> "" ]

\* days between the start of one run and the start of the next
DayJumps == { 0, 25 }

Response(rel, strength, conf) ==
  [ kind |-> "object", has |-> SchemaFields, relevant |-> rel,
    strength |-> strength, confidence |-> conf ]

RespStrong == Response(TRUE, 4, 90)
RespIrrelevant == Response(FALSE, 2, 95)
\* out of schema: strength above 4
RespBadStrength == Response(TRUE, 7, 90)
\* out of schema: not an object
RespArray ==
  [ kind |-> "array", has |-> {}, relevant |-> FALSE, strength |-> 0,
    confidence |-> 0 ]

\* out of schema: a strength that is no number ("high", null)
RespTextStrength == Response(TRUE, NonInt, 90)

\* what json.loads(resp.output_text) may return
Responses == { RespStrong, RespIrrelevant, RespBadStrength }

\* str(ex) of what an attempt may raise: the request fails, or output_text
\* is no JSON
ClassifyErrors == { "APITimeoutError", "JSONDecodeError" }

(***************************************************************************)
(* State                                                                   *)
(***************************************************************************)
\* the invocations of main() that may be in progress
Procs == { 1, 2 }

VARIABLES
  clock,                  \* the current day
  runs,                   \* invocations of main() started so far
  FAST_TEST,              \* RUN_MODE == "fast"
  MAX_LLM_CALLS_PER_RUN,  \* the classification budget
  artFile,                \* data/articles.json
  riskLog,                \* data/risk_log.json
  dailyScores,            \* data/daily_scores.json
  stateFile,              \* data/state.json
  runLog,                 \* data/run_log.jsonl
  pc,                     \* where each invocation is
  today,                  \* today of the invocation
  store,                  \* its in-memory article store
  seen_dedup,             \* its dedup set
  run_stats,              \* its counters
  qidx,                   \* the query it is at
  nent,                   \* entries of the current feed it has taken
  cur,                    \* the id of the article being classified
  attempt,                \* the attempt of llm_classify in progress
  sleeps,                 \* the waits of the llm_classify call in progress
  invoked,                \* articles llm_classify was called for in the run
  outcome,                \* the branch the last entry taken left the loop body by
  loaded,                 \* the store as loaded and pruned at the run's start
  fileKind,               \* what each document's file holds: see FileKinds
  arg,                    \* the arguments a function is applied to
  ret,                    \* its result
  applied,                \* the function that was applied, "" before
  fs,                     \* atomic_save_json: what is at each path
  wr,                     \* atomic_save_json: the call in progress
  rd                      \* atomic_save_json: what the last read of the path saw

disk == << artFile, riskLog, dailyScores, stateFile, runLog, fileKind >>
\* the variables of the specifications of single functions
aux == << arg, ret, applied, fs, wr, rd >>
config == << FAST_TEST, MAX_LLM_CALLS_PER_RUN >>
locals ==
  << pc, today, store, seen_dedup, run_stats, qidx, nent, cur, attempt,
     sleeps, invoked, outcome, loaded >>
vars == << clock, runs, config, disk, locals, aux >>

EmptyStore == [ aid \in {} |-> NoLLM ]

NoArticle == << >>

NoStats ==
  [ store_pruned_removed |-> 0, new_articles |-> 0, dedup_skips |-> 0,
    prefilter_skips |-> 0, llm_calls |-> 0, llm_errors |-> 0,
    urls_total |-> 0, urls_ok |-> 0, urls_fail |-> 0,
    per_item_llm_calls |-> [ k \in Items |-> 0 ] ]

NoState ==
  [ last_run_at |-> NoDate, last_overall_score |-> NoDate,
    last_risk_level |-> "" ]

\* the documents a file of data/ may hold
FileNames == { "articles", "risk_log", "daily_scores", "state" }

\* "ok": JSON of the expected top-level type, held by the document's
\* variable (a missing file is the empty document); "unparseable": json.load
\* raises; "wrong_type": JSON of another top-level type
FileKinds == { "ok", "unparseable", "wrong_type" }

\* no invocation of main is in progress
InitLocals ==
  /\ pc = [ p \in Procs |-> "idle" ]
  /\ today = [ p \in Procs |-> FirstDay ]
  /\ store = [ p \in Procs |-> EmptyStore ]
  /\ seen_dedup = [ p \in Procs |-> {} ]
  /\ run_stats = [ p \in Procs |-> NoStats ]
  /\ qidx = [ p \in Procs |-> 1 ]
  /\ nent = [ p \in Procs |-> 0 ]
  /\ cur = [ p \in Procs |-> NoArticle ]
  /\ attempt = [ p \in Procs |-> 0 ]
  /\ sleeps = [ p \in Procs |-> <<>> ]
  /\ invoked = [ p \in Procs |-> 0 ]
  /\ outcome = [ p \in Procs |-> "none" ]
  /\ loaded = [ p \in Procs |-> EmptyStore ]

\* data/ is empty
InitDisk ==
  /\ artFile = EmptyStore
  /\ riskLog = <<>>
  /\ dailyScores = <<>>
  /\ stateFile = NoState
  /\ runLog = <<>>
  /\ fileKind = [ f \in FileNames |-> "ok" ]

\* no function applied, no save in progress
InitAux ==
  /\ arg = << >>
  /\ ret = << >>
  /\ applied = ""
  /\ fs = << >>
  /\ wr = << >>
  /\ rd = << >>

Init ==
  /\ clock = FirstDay
  /\ runs = 0
  /\ FAST_TEST \in BOOLEAN
  /\ MAX_LLM_CALLS_PER_RUN = MaxBudget
  /\ InitDisk
  /\ InitLocals
  /\ InitAux

\* a slip: the stored document is not read
load_article_store_Empty == EmptyStore

\* load_json and the isinstance test that follows it
load_article_store == IF fileKind["articles"] = "ok" THEN artFile ELSE EmptyStore

load_risk_log == IF fileKind["risk_log"] = "ok" THEN riskLog ELSE <<>>

load_daily_scores == IF fileKind["daily_scores"] = "ok" THEN dailyScores ELSE <<>>

load_state == IF fileKind["state"] = "ok" THEN stateFile ELSE NoState

(***************************************************************************)
(* fetch_articles_with_llm                                                 *)
(***************************************************************************)
\* load_article_store, prune_articles_store, the counters, the dedup set
StartRun(p) ==
  /\ pc[p] = "idle"
  /\ runs < MaxRuns
  /\ \E d \in (IF runs = 0 THEN {0} ELSE DayJumps) :
       LET day == clock + d
           pruned == prune_articles_store(load_article_store, day)
       IN  /\ clock' = day
           /\ today' = [today EXCEPT ![p] = day]
           /\ store' = [store EXCEPT ![p] = pruned.kept]
           /\ loaded' = [loaded EXCEPT ![p] = pruned.kept]
           /\ run_stats' =
                [run_stats EXCEPT
                   ![p] = [NoStats EXCEPT !.store_pruned_removed = pruned.removed]]
           /\ seen_dedup' =
                [seen_dedup EXCEPT ![p] = build_existing_dedup_set(pruned.kept)]
  /\ MAX_LLM_CALLS_PER_RUN' \in 0..MaxBudget
  /\ UNCHANGED FAST_TEST
  /\ runs' = runs + 1
  /\ pc' = [pc EXCEPT ![p] = "fetch"]
  /\ qidx' = [qidx EXCEPT ![p] = 1]
  /\ nent' = [nent EXCEPT ![p] = 0]
  /\ invoked' = [invoked EXCEPT ![p] = 0]
  /\ outcome' = [outcome EXCEPT ![p] = "none"]
  /\ UNCHANGED << aux, disk, cur, attempt, sleeps >>

urls == build_rss_urls(FAST_TEST)

\* feedparser.parse raises, or the feed is flagged bozo: the query is skipped
FetchFail(p) ==
  /\ pc[p] = "fetch"
  /\ qidx[p] <= Len(urls)
  /\ run_stats' =
       [run_stats EXCEPT ![p].urls_total = @ + 1, ![p].urls_fail = @ + 1]
  /\ qidx' = [qidx EXCEPT ![p] = @ + 1]
  /\ UNCHANGED << aux, clock, runs, config, disk, pc, today, store, seen_dedup,
                  nent, cur, attempt, sleeps, invoked, outcome, loaded >>

\* the feed is retrieved; its entries are taken one by one
FetchOk(p) ==
  /\ pc[p] = "fetch"
  /\ qidx[p] <= Len(urls)
  /\ run_stats' =
       [run_stats EXCEPT ![p].urls_total = @ + 1, ![p].urls_ok = @ + 1]
  /\ pc' = [pc EXCEPT ![p] = "entries"]
  /\ nent' = [nent EXCEPT ![p] = 0]
  /\ UNCHANGED << aux, clock, runs, config, disk, today, store, seen_dedup, qidx,
                  cur, attempt, sleeps, invoked, outcome, loaded >>

\* a slip: the retention horizon used as the age ceiling
TooOld_Retention(pub_date, day) == pub_date < day - ARTICLES_RETENTION_DAYS

\* pub_date < today - timedelta(days=21)
TooOld(pub_date, day) == pub_date < day - MAX_AGE_DAYS

\* a slip: > for >=
BudgetExhausted_OffByOne(stats) == stats.llm_calls > MAX_LLM_CALLS_PER_RUN

\* run_stats["llm_calls"] >= MAX_LLM_CALLS_PER_RUN
BudgetExhausted(stats) == stats.llm_calls >= MAX_LLM_CALLS_PER_RUN

\* run_stats["per_item_llm_calls"][item_key] >= 2 and FAST_TEST
ItemCapReached(stats, item_key) ==
  stats.per_item_llm_calls[item_key] >= MAX_LLM_CALLS_PER_ITEM /\ FAST_TEST

\* a slip: the summary is matched against every indicator's patterns
PrefilterMiss_AnyIndicator(item_key, e) ==
  /\ strong_keyword_hit(item_key, e.title) = 0
  /\ \A k \in Items : strong_keyword_hit(k, e.summary) = 0

\* a slip: the gate never closes
PrefilterMiss_Never(item_key, e) == FALSE

\* title_hit == 0 and summary_hit == 0
PrefilterMiss(item_key, e) ==
  LET title_hit == strong_keyword_hit(item_key, e.title)
      summary_hit == IF e.summary # <<>>
                     THEN strong_keyword_hit(item_key, e.summary) ELSE 0
  IN  title_hit = 0 /\ summary_hit = 0

\* dk in seen_dedup
AlreadySeen(dk, seen) == dk \in seen

NewArticle(aid, item_key, e, day) ==
  [ id |-> aid, group |-> "OVERALL", item |-> item_key,
    title |-> e.title, title_norm |-> normalize_title(e.title),
    link |-> e.link, link_norm |-> normalize_url(e.link),
    published |-> e.published, summary |-> e.summary, fetched_at |-> day,
    llm |-> NoLLM, llm_model |-> "", llm_classified_at |-> NoDate,
    llm_skipped |-> "", llm_error |-> "" ]

\* The body of "for e in entries" up to the call of llm_classify: what it
\* leaves in store, seen_dedup and run_stats, and whether the classifier
\* is called (for the article `cur`).
HandleEntry(st, seen, stats, item_key, e, day) ==
  LET same == [ store |-> st, seen |-> seen, stats |-> stats,
                call |-> FALSE, cur |-> NoArticle, branch |-> "empty" ]
      dk == dedup_key(e.title, e.link)
      aid == norm_id(<< "OVERALL", item_key, e.title >>, e.link)
      put == (aid :> NewArticle(aid, item_key, e, day)) @@ st
      seen1 == seen \cup {dk}
      stats1 == [stats EXCEPT !.new_articles = @ + 1]
  IN  IF e.title = <<>> /\ e.link = NoLink THEN same
      ELSE IF TooOld(parse_pub_date(e.published, day), day)
        THEN [same EXCEPT !.branch = "too_old"]
      ELSE IF AlreadySeen(dk, seen)
        THEN [same EXCEPT !.stats = [stats EXCEPT !.dedup_skips = @ + 1],
                          !.branch = "dedup"]
      ELSE IF aid \in DOMAIN st
        THEN [same EXCEPT !.stats = [stats EXCEPT !.dedup_skips = @ + 1],
                          !.seen = seen1, !.branch = "dedup_id"]
      ELSE IF BudgetExhausted(stats1)
        THEN [same EXCEPT
                !.store = [put EXCEPT ![aid].llm_skipped = "max_llm_calls_per_run"],
                !.seen = seen1, !.stats = stats1, !.branch = "budget"]
      ELSE IF ItemCapReached(stats1, item_key)
        THEN [same EXCEPT
                !.store = [put EXCEPT
                             ![aid].llm_skipped = "max_llm_calls_per_item_per_run"],
                !.seen = seen1, !.stats = stats1, !.branch = "item_cap"]
      ELSE IF PrefilterMiss(item_key, e)
        THEN [same EXCEPT
                !.store = [put EXCEPT
                             ![aid].llm_skipped = "prefilter_no_strong_keywords"],
                !.seen = seen1,
                !.stats = [stats1 EXCEPT !.prefilter_skips = @ + 1],
                !.branch = "prefilter"]
      ELSE [ store |-> put, seen |-> seen1, stats |-> stats1,
             call |-> TRUE, cur |-> aid, branch |-> "classify" ]

\* one entry of the feed (at most MAX_ENTRIES_PER_FEED of them are taken)
ProcessEntry(p, e) ==
  /\ pc[p] = "entries"
  /\ nent[p] < MAX_ENTRIES_PER_FEED
  /\ LET h == HandleEntry(store[p], seen_dedup[p], run_stats[p],
                          urls[qidx[p]], e, today[p])
     IN  /\ store' = [store EXCEPT ![p] = h.store]
         /\ seen_dedup' = [seen_dedup EXCEPT ![p] = h.seen]
         /\ run_stats' = [run_stats EXCEPT ![p] = h.stats]
         /\ cur' = [cur EXCEPT ![p] = h.cur]
         /\ pc' = [pc EXCEPT ![p] = IF h.call THEN "classify" ELSE "entries"]
         /\ invoked' = [invoked EXCEPT ![p] = IF h.call THEN @ + 1 ELSE @]
         /\ outcome' = [outcome EXCEPT ![p] = h.branch]
  /\ nent' = [nent EXCEPT ![p] = @ + 1]
  /\ attempt' = [attempt EXCEPT ![p] = 0]
  /\ sleeps' = [sleeps EXCEPT ![p] = <<>>]
  /\ UNCHANGED << aux, clock, runs, config, disk, today, qidx, loaded >>

\* the feed has no further entry, or entries[:MAX_ENTRIES_PER_FEED] ends
EndFeed(p) ==
  /\ pc[p] = "entries"
  /\ pc' = [pc EXCEPT ![p] = "fetch"]
  /\ qidx' = [qidx EXCEPT ![p] = @ + 1]
  /\ nent' = [nent EXCEPT ![p] = 0]
  /\ outcome' = [outcome EXCEPT ![p] = "none"]
  /\ UNCHANGED << aux, clock, runs, config, disk, today, store, seen_dedup,
                  run_stats, cur, attempt, sleeps, invoked, loaded >>

(***************************************************************************)
(* llm_classify and its caller's try / except                              *)
(***************************************************************************)
retries == IF FAST_TEST THEN 1 ELSE 3

\* a slip: a constant wait
Backoff_Constant(k) == 1

\* time.sleep(1.0 * (attempt + 1)), in seconds
Backoff(k) == 1 * (k + 1)

\* an attempt returns json.loads(resp.output_text)
ClassifyReturn(p, cls) ==
  /\ pc[p] = "classify"
  /\ store' = [store EXCEPT
                 ![p][cur[p]].llm = cls,
                 ![p][cur[p]].llm_model = PRIMARY_MODEL,
                 ![p][cur[p]].llm_classified_at = today[p]]
  /\ run_stats' =
       [run_stats EXCEPT
          ![p].llm_calls = @ + 1,
          ![p].per_item_llm_calls[urls[qidx[p]]] = @ + 1]
  /\ pc' = [pc EXCEPT ![p] = "entries"]
  /\ cur' = [cur EXCEPT ![p] = NoArticle]
  /\ attempt' = [attempt EXCEPT ![p] = 0]
  /\ sleeps' = [sleeps EXCEPT ![p] = <<>>]
  /\ UNCHANGED << aux, clock, runs, config, disk, today, seen_dedup, qidx, nent,
                  invoked, outcome, loaded >>

\* an attempt that is not the last raises: sleep, then the next attempt
ClassifyRetry(p) ==
  /\ pc[p] = "classify"
  /\ attempt[p] # retries - 1
  /\ sleeps' = [sleeps EXCEPT ![p] = Append(@, Backoff(attempt[p]))]
  /\ attempt' = [attempt EXCEPT ![p] = @ + 1]
  /\ UNCHANGED << aux, clock, runs, config, disk, pc, today, store, seen_dedup,
                  run_stats, qidx, nent, cur, invoked, outcome, loaded >>

\* a slip: no try / except around llm_classify, the exception ends main
ClassifyRaise_Propagates(p, ex) ==
  /\ pc[p] = "classify"
  /\ attempt[p] = retries - 1
  /\ pc' = [pc EXCEPT ![p] = "idle"]
  /\ store' = [store EXCEPT ![p] = EmptyStore]
  /\ loaded' = [loaded EXCEPT ![p] = EmptyStore]
  /\ seen_dedup' = [seen_dedup EXCEPT ![p] = {}]
  /\ run_stats' = [run_stats EXCEPT ![p] = NoStats]
  /\ qidx' = [qidx EXCEPT ![p] = 1]
  /\ nent' = [nent EXCEPT ![p] = 0]
  /\ cur' = [cur EXCEPT ![p] = NoArticle]
  /\ attempt' = [attempt EXCEPT ![p] = 0]
  /\ sleeps' = [sleeps EXCEPT ![p] = <<>>]
  /\ invoked' = [invoked EXCEPT ![p] = 0]
  /\ outcome' = [outcome EXCEPT ![p] = "none"]
  /\ UNCHANGED << aux, clock, runs, config, disk, today >>

\* a slip: the failure is counted but the article is not marked
ClassifyRaise_Unmarked(p, ex) ==
  /\ pc[p] = "classify"
  /\ attempt[p] = retries - 1
  /\ run_stats' = [run_stats EXCEPT ![p].llm_errors = @ + 1]
  /\ pc' = [pc EXCEPT ![p] = "entries"]
  /\ cur' = [cur EXCEPT ![p] = NoArticle]
  /\ attempt' = [attempt EXCEPT ![p] = 0]
  /\ sleeps' = [sleeps EXCEPT ![p] = <<>>]
  /\ UNCHANGED << aux, clock, runs, config, disk, today, store, seen_dedup,
                  qidx, nent, invoked, outcome, loaded >>

\* the last attempt raises: the caller records str(ex) and goes on
ClassifyRaise(p, ex) ==
  /\ pc[p] = "classify"
  /\ attempt[p] = retries - 1
  /\ store' = [store EXCEPT ![p][cur[p]].llm_error = ex]
  /\ run_stats' = [run_stats EXCEPT ![p].llm_errors = @ + 1]
  /\ pc' = [pc EXCEPT ![p] = "entries"]
  /\ cur' = [cur EXCEPT ![p] = NoArticle]
  /\ attempt' = [attempt EXCEPT ![p] = 0]
  /\ sleeps' = [sleeps EXCEPT ![p] = <<>>]
  /\ UNCHANGED << aux, clock, runs, config, disk, today, seen_dedup, qidx, nent,
                  invoked, outcome, loaded >>

\* a slip: only the articles the run inserted are saved
SaveStore_InsertedOnly(p) ==
  /\ pc[p] = "fetch"
  /\ qidx[p] > Len(urls)
  /\ artFile' = Restrict(store[p], DOMAIN store[p] \ DOMAIN loaded[p])
  /\ fileKind' = [fileKind EXCEPT !["articles"] = "ok"]
  /\ pc' = [pc EXCEPT ![p] = "score"]
  /\ UNCHANGED << aux, clock, runs, config, riskLog, dailyScores, stateFile,
                  runLog, today, store, seen_dedup, run_stats, qidx, nent,
                  cur, attempt, sleeps, invoked, outcome, loaded >>

\* save_article_store(store), after the last query
SaveStore(p) ==
  /\ pc[p] = "fetch"
  /\ qidx[p] > Len(urls)
  /\ artFile' = store[p]
  /\ fileKind' = [fileKind EXCEPT !["articles"] = "ok"]
  /\ pc' = [pc EXCEPT ![p] = "score"]
  /\ UNCHANGED << aux, clock, runs, config, riskLog, dailyScores, stateFile,
                  runLog, today, store, seen_dedup, run_stats, qidx, nent,
                  cur, attempt, sleeps, invoked, outcome, loaded >>

(***************************************************************************)
(* main, after fetch_articles_with_llm                                     *)
(***************************************************************************)
\* sorted(rows, key=lambda r: r.get("date", "")): a stable sort
RECURSIVE InsertByDate(_, _)
InsertByDate(sorted, row) ==
  IF sorted = <<>> THEN << row >>
  ELSE IF row.date < Head(sorted).date THEN << row >> \o sorted
       ELSE << Head(sorted) >> \o InsertByDate(Tail(sorted), row)

RECURSIVE SortByDate(_)
SortByDate(rows) ==
  IF rows = <<>> THEN <<>>
  ELSE InsertByDate(SortByDate(SubSeq(rows, 1, Len(rows) - 1)),
                    rows[Len(rows)])

\* the run's entry of the risk log
RiskLogEntry(p) ==
  LET so == score_overall(Values(store[p]), today[p])
  IN  [ date |-> today[p], scores |-> so.scores, score |-> so.total,
        bucket |-> so.bucket, meta |-> so.meta, run_stats |-> run_stats[p] ]

\* the risk log without today's rows, plus the run's, sorted by date
RiskLogAfter(log_rows, out) ==
  SortByDate(Append(SelectSeq(log_rows, LAMBDA r : r.date # out.date), out))

DailySnapshot(p) ==
  LET articles == Values(store[p])
      so == score_overall(articles, today[p])
  IN  [ date |-> today[p], run_at |-> today[p],
        overall_score |-> so.total, risk_level |-> so.bucket,
        item_scores |-> so.scores, item_meta |-> so.meta,
        article_count_total |-> Cardinality(articles),
        article_count_14d |->
          Cardinality({ a \in articles :
                          days_old_from_article(a, today[p]) <= 14 }),
        new_articles_today |-> run_stats[p].new_articles ]

\* a slip: the snapshot is always appended
upsert_daily_score_Append(rows, snapshot) ==
  SortByDate(Append(rows, snapshot))

\* rows[i] = snapshot for the first row of that date, else rows.append;
\* save_daily_scores sorts by date
upsert_daily_score(rows, snapshot) ==
  SortByDate(
    IF \E i \in 1..Len(rows) : rows[i].date = snapshot.date
    THEN LET i == CHOOSE k \in 1..Len(rows) :
                    /\ rows[k].date = snapshot.date
                    /\ \A j \in 1..(k - 1) : rows[j].date # snapshot.date
         IN  [rows EXCEPT ![i] = snapshot]
    ELSE Append(rows, snapshot))

\* the state record main saves
StateAfter(state, p) ==
  LET so == score_overall(Values(store[p]), today[p])
  IN  [state EXCEPT !.last_run_at = today[p],
                    !.last_overall_score = so.total,
                    !.last_risk_level = so.bucket]

\* the record log_run appends
RunLogRow(p) ==
  LET so == score_overall(Values(store[p]), today[p])
  IN  [ run_at |-> today[p],
        run_mode |-> IF FAST_TEST THEN "fast" ELSE "prod",
        stats |-> run_stats[p], overall_score |-> so.total,
        risk_level |-> so.bucket, item_scores |-> so.scores ]

\* a slip: the file is opened with "w"
append_jsonl_Overwrite(rows, row) == << row >>

\* with open(path, "a"): f.write(json.dumps(row) + "\n")
append_jsonl(rows, row) == Append(rows, row)

\* r.get("date") of the risk log's filter and sort, row.get("date") of
\* upsert_daily_score and save_daily_scores: AttributeError when a row of
\* the document is not an object
RowsRaise(rows) == \E i \in 1..Len(rows) : ~IsDict(rows[i])

\* an exception that nothing in main catches
MainRaises(p) ==
  \/ ScoringRaises(Values(store[p]), today[p])
  \/ RowsRaise(load_risk_log)
  \/ RowsRaise(load_daily_scores)

\* main after fetch_articles_with_llm: score_overall, the risk log, the
\* daily snapshot, the state record, the run log; then main returns.
\* Serialized runs that do not crash never show the documents in between.
FinishMain(p) ==
  /\ pc[p] = "score"
  /\ ~MainRaises(p)
  /\ riskLog' = RiskLogAfter(load_risk_log, RiskLogEntry(p))
  /\ dailyScores' = upsert_daily_score(load_daily_scores, DailySnapshot(p))
  /\ stateFile' = StateAfter(load_state, p)
  /\ runLog' = append_jsonl(runLog, RunLogRow(p))
  /\ fileKind' = [ f \in FileNames |->
                     IF f = "articles" THEN fileKind[f] ELSE "ok" ]
  /\ pc' = [pc EXCEPT ![p] = "idle"]
  /\ store' = [store EXCEPT ![p] = EmptyStore]
  /\ loaded' = [loaded EXCEPT ![p] = EmptyStore]
  /\ seen_dedup' = [seen_dedup EXCEPT ![p] = {}]
  /\ run_stats' = [run_stats EXCEPT ![p] = NoStats]
  /\ qidx' = [qidx EXCEPT ![p] = 1]
  /\ invoked' = [invoked EXCEPT ![p] = 0]
  /\ outcome' = [outcome EXCEPT ![p] = "none"]
  /\ UNCHANGED << aux, clock, runs, config, artFile, today, nent, cur, attempt,
                  sleeps >>

\* main ends by the exception: what it saved before stays, nothing after
\* it is written
MainCrash(p) ==
  /\ pc[p] = "score"
  /\ MainRaises(p)
  /\ IF ~ScoringRaises(Values(store[p]), today[p]) /\ ~RowsRaise(load_risk_log)
     THEN /\ riskLog' = RiskLogAfter(load_risk_log, RiskLogEntry(p))
          /\ fileKind' = [fileKind EXCEPT !["risk_log"] = "ok"]
     ELSE UNCHANGED << riskLog, fileKind >>
  /\ pc' = [pc EXCEPT ![p] = "idle"]
  /\ store' = [store EXCEPT ![p] = EmptyStore]
  /\ loaded' = [loaded EXCEPT ![p] = EmptyStore]
  /\ seen_dedup' = [seen_dedup EXCEPT ![p] = {}]
  /\ run_stats' = [run_stats EXCEPT ![p] = NoStats]
  /\ qidx' = [qidx EXCEPT ![p] = 1]
  /\ invoked' = [invoked EXCEPT ![p] = 0]
  /\ outcome' = [outcome EXCEPT ![p] = "none"]
  /\ UNCHANGED << aux, clock, runs, config, artFile, dailyScores, stateFile,
                  runLog, today, nent, cur, attempt, sleeps >>

(***************************************************************************)
(* Specification: the scheduler runs one invocation at a time              *)
(***************************************************************************)
Run(p) ==
  \/ StartRun(p)
  \/ FetchFail(p)
  \/ FetchOk(p)
  \/ \E e \in FeedEntries : ProcessEntry(p, e)
  \/ EndFeed(p)
  \/ \E cls \in Responses : ClassifyReturn(p, cls)
  \/ ClassifyRetry(p)
  \/ \E ex \in ClassifyErrors : ClassifyRaise(p, ex)
  \/ SaveStore(p)
  \/ FinishMain(p)

Next == Run(1)

Spec == Init /\ [][Next]_vars

(***************************************************************************)
(* Specification: one run that finds data/ as something else left it, and  *)
(* a classifier that may answer out of schema                              *)
(***************************************************************************)
\* what may be wrong with one document: json.load raises, the top-level
\* value has another type, an entry is not an object
Faults ==
  { << f, k >> : f \in FileNames, k \in { "unparseable", "wrong_type" } }
  \cup { << f, "bad_entry" >> : f \in FileNames \ { "state" } }
  \cup { << "none", "none" >> }

BadEntryKey == norm_id(<< "OVERALL", "dc_vacancy", <<"queue">> >>, NoLink)

InitFaulty ==
  /\ clock = FirstDay
  /\ runs = MaxRuns - 1
  /\ FAST_TEST \in BOOLEAN
  /\ MAX_LLM_CALLS_PER_RUN = MaxBudget
  /\ InitLocals
  /\ InitAux
  /\ stateFile = NoState
  /\ runLog = <<>>
  /\ \E fault \in Faults :
       /\ fileKind = [ f \in FileNames |->
                         IF f = fault[1] /\ fault[2] # "bad_entry"
                         THEN fault[2] ELSE "ok" ]
       /\ artFile = IF fault = << "articles", "bad_entry" >>
                    THEN (BadEntryKey :> NotADict) ELSE EmptyStore
       /\ riskLog = IF fault = << "risk_log", "bad_entry" >>
                    THEN << NotADict >> ELSE <<>>
       /\ dailyScores = IF fault = << "daily_scores", "bad_entry" >>
                        THEN << NotADict >> ELSE <<>>

RunFaulty(p) ==
  \/ Run(p)
  \/ ClassifyReturn(p, RespTextStrength)
  \/ MainCrash(p)

NextFaulty == RunFaulty(1)

SpecFaulty == InitFaulty /\ [][NextFaulty]_vars

(***************************************************************************)
(* Specification: two invocations that nothing in the program keeps apart;  *)
(* whether the deployment runs them one at a time is fixed at the start    *)
(***************************************************************************)
Schedules == { "serialized", "overlapping" }

\* what the feeds deliver to the two invocations
OverlapEntries == { EntryGrid }

InitOverlap ==
  /\ clock = FirstDay
  /\ runs = 0
  /\ FAST_TEST = TRUE
  /\ MAX_LLM_CALLS_PER_RUN = MaxBudget
  /\ InitDisk
  /\ InitLocals
  /\ arg \in [ schedule : Schedules ]
  /\ ret = << >> /\ applied = ""
  /\ fs = << >> /\ wr = << >> /\ rd = << >>

\* main() is started: at any time, or under a serializing scheduler only
\* when no other invocation is in progress
StartInvocation(p) ==
  /\ arg.schedule = "serialized" => \A q \in Procs : pc[q] = "idle"
  /\ StartRun(p)

RunOverlap(p) ==
  \/ StartInvocation(p)
  \/ FetchOk(p)
  \/ \E e \in OverlapEntries : ProcessEntry(p, e)
  \/ EndFeed(p)
  \/ ClassifyReturn(p, RespStrong)
  \/ SaveStore(p)
  \/ FinishMain(p)

NextOverlap == \E p \in Procs : RunOverlap(p)

SpecOverlap == InitOverlap /\ [][NextOverlap]_vars

(***************************************************************************)
(* Specifications of single functions: Init draws the arguments, the       *)
(* action applies the function                                             *)
(***************************************************************************)
base == << clock, runs, config, disk, locals >>

\* nothing runs, data/ is empty
InitBase ==
  /\ clock = FirstDay
  /\ runs = 0
  /\ FAST_TEST = FALSE
  /\ MAX_LLM_CALLS_PER_RUN = MaxBudget
  /\ InitDisk
  /\ InitLocals

InitNoSave == fs = << >> /\ wr = << >> /\ rd = << >>

\* prune_articles_store ---------------------------------------------------
\* the number of keys of the stores pruned
MaxStoreSize == 3

PruneTitles == << <<"alpha">>, <<"beta">>, <<"gamma">>, <<"delta">> >>

\* the day of the pruning run
PruneDay == FirstDay + ARTICLES_RETENTION_DAYS

\* what a key of the stored document may hold: an article published or,
\* with no readable publish date, fetched around the cutoff, or a value
\* that is not an object
PruneEntries(n) ==
  { StoredArticle("power_permit_delays", PruneTitles[n], d, PruneDay)
      : d \in { FirstDay - 1, FirstDay, FirstDay + 1 } }
  \cup
  { StoredArticle("power_permit_delays", PruneTitles[n], NoDate, d)
      : d \in { FirstDay - 1, FirstDay } }
  \cup { NotADict }

PruneKey(n) == norm_id(<< "OVERALL", "power_permit_delays", PruneTitles[n] >>, NoLink)

PruneStores ==
  UNION { { [ k \in { PruneKey(n) : n \in D } |->
               f[CHOOSE n \in D : PruneKey(n) = k] ]
            : f \in { g \in [ D -> UNION { PruneEntries(n) : n \in D } ] :
                        \A n \in D : g[n] \in PruneEntries(n) } }
          : D \in SUBSET (1..MaxStoreSize) }

InitPrune ==
  /\ InitBase /\ InitNoSave
  /\ arg \in [ store : PruneStores, day : { PruneDay } ]
  /\ ret = << >>
  /\ applied = ""

ApplyPrune ==
  /\ applied = ""
  /\ ret' = prune_articles_store(arg.store, arg.day)
  /\ applied' = "prune_articles_store"
  /\ UNCHANGED << base, arg, fs, wr, rd >>

NextPrune == ApplyPrune

SpecPrune == InitPrune /\ [][NextPrune]_vars

\* score_overall -----------------------------------------------------------
\* the articles of one scored list
MaxScored == 3

ScoreItem == "power_permit_delays"

\* publish ages in days: a future date, the bounds of the 3-day window
\* and of the 14-day window, and the first day outside each
ScoreAges == { -1, 0, 2, 3, 14, 15 }

ScoreAgeName(age) ==
  CASE age = -1 -> "future" [] age = 0 -> "d0" [] age = 2 -> "d2"
    [] age = 3 -> "d3" [] age = 14 -> "d14" [] OTHER -> "d15"

\* how the run that stored an article left it, and whether its title has
\* a keyword of the indicator
ScoreVariants ==
  { << "strong", TRUE >>, << "strong", FALSE >>, << "floor", TRUE >>,
    << "floor", FALSE >>, << "lowconf", TRUE >>, << "irrelevant", TRUE >>,
    << "budget", TRUE >>, << "prefilter", FALSE >>, << "error", TRUE >> }

ScoreArticle(v, age, day) ==
  LET title == (IF v[2] THEN << "grid", "delay" >> ELSE << "chip", "news" >>)
               \o << v[1], ScoreAgeName(age) >>
      a == StoredArticle(ScoreItem, title, day - age, day)
  IN  CASE v[1] = "strong" ->
             [a EXCEPT !.llm = Response(TRUE, 4, 90), !.llm_model = PRIMARY_MODEL,
                       !.llm_classified_at = day]
        [] v[1] = "floor" ->
             [a EXCEPT !.llm = Response(TRUE, 1, MIN_CONFIDENCE),
                       !.llm_model = PRIMARY_MODEL, !.llm_classified_at = day]
        [] v[1] = "lowconf" ->
             [a EXCEPT !.llm = Response(TRUE, 4, MIN_CONFIDENCE - 1),
                       !.llm_model = PRIMARY_MODEL, !.llm_classified_at = day]
        [] v[1] = "irrelevant" ->
             [a EXCEPT !.llm = Response(FALSE, 4, 95),
                       !.llm_model = PRIMARY_MODEL, !.llm_classified_at = day]
        [] v[1] = "budget" -> [a EXCEPT !.llm_skipped = "max_llm_calls_per_run"]
        [] v[1] = "prefilter" ->
             [a EXCEPT !.llm_skipped = "prefilter_no_strong_keywords"]
        [] OTHER -> [a EXCEPT !.llm_error = "APITimeoutError"]

ScorePool ==
  { ScoreArticle(v, age, FirstDay) : v \in ScoreVariants, age \in ScoreAges }

\* the subsets of S of n elements or fewer
RECURSIVE SubsetsUpTo(_, _)
SubsetsUpTo(S, n) ==
  IF n = 0 THEN { {} }
  ELSE LET less == SubsetsUpTo(S, n - 1)
       IN  less \cup { A \cup { x } : A \in less, x \in S }

InitScore ==
  /\ InitBase /\ InitNoSave
  /\ arg \in [ articles : SubsetsUpTo(ScorePool, MaxScored),
               day : { FirstDay } ]
  /\ ret = << >>
  /\ applied = ""

\* score_overall(articles, today), and for each indicator the lists
\* score_item builds on the way
ApplyScore ==
  /\ applied = ""
  /\ ret' = [ overall |-> score_overall(arg.articles, arg.day),
              recent_14 |-> [ k \in Items |-> recent_14(k, arg.articles, arg.day) ],
              recent_3 |-> [ k \in Items |-> recent_3(k, arg.articles, arg.day) ],
              evidence |-> [ k \in Items |-> evidence(k, arg.articles, arg.day) ] ]
  /\ applied' = "score_overall"
  /\ UNCHANGED << base, arg, fs, wr, rd >>

NextScore == ApplyScore

SpecScore == InitScore /\ [][NextScore]_vars

\* atomic_save_json ------------------------------------------------------
\* the calls of save_json for one document, and the chunks json.dump
\* writes a document in
MaxSaves == 3
DocChunks == 2

\* a slip: the document is written in place
TmpName_InPlace(path) == path

\* path.with_suffix(path.suffix + ".tmp")
TmpName(path) == "doc.json.tmp"

SavePath == "doc.json"

FsNames == { SavePath, TmpName(SavePath) }

\* the document of the v-th call, as the chunks of its text
Doc(v) == [ i \in 1..DocChunks |-> v ]

\* the files are i-nodes; a name of the directory leads to an i-node, 0
\* when there is no such file; a file that is open stays readable and
\* writable when its name is taken away
InitSave ==
  /\ InitBase
  /\ arg = << >> /\ ret = << >> /\ applied = ""
  /\ fs = [ ino |-> [ n \in 1..MaxSaves |-> << >> ],
            dir |-> [ f \in FsNames |-> 0 ],
            used |-> 0 ]
  /\ wr = [ pc |-> "idle", obj |-> 0, fd |-> 0, prev |-> 0 ]
  /\ rd = [ pc |-> "idle", fd |-> 0, got |-> << >>, from |-> 0, to |-> 0 ]

\* the version of the complete document at the path; 0 when there is none
\* or when what is there is not a complete document
Committed ==
  IF fs.dir[SavePath] = 0 THEN 0
  ELSE LET data == fs.ino[fs.dir[SavePath]]
       IN  IF Len(data) = DocChunks /\ data = Doc(data[1]) THEN data[1] ELSE 0

\* save_json(path, obj) is called
SaveCall ==
  /\ wr.pc = "idle"
  /\ wr.obj < MaxSaves
  /\ wr' = [ pc |-> "open", obj |-> wr.obj + 1, fd |-> 0, prev |-> Committed ]
  /\ UNCHANGED << base, arg, ret, applied, fs, rd >>

\* open(tmp, "w"): the file is created, or truncated when a crashed call
\* left it
SaveOpen ==
  /\ wr.pc = "open"
  /\ LET name == TmpName(SavePath)
         old == fs.dir[name]
         n == IF old # 0 THEN old ELSE fs.used + 1
     IN  /\ fs' = [ ino |-> [fs.ino EXCEPT ![n] = << >>],
                    dir |-> [fs.dir EXCEPT ![name] = n],
                    used |-> IF old # 0 THEN fs.used ELSE fs.used + 1 ]
         /\ wr' = [wr EXCEPT !.pc = "dump", !.fd = n]
  /\ UNCHANGED << base, arg, ret, applied, rd >>

\* json.dump(obj, f): a chunk of the text reaches the file
SaveDump ==
  /\ wr.pc = "dump"
  /\ Len(fs.ino[wr.fd]) < DocChunks
  /\ fs' = [fs EXCEPT !.ino[wr.fd] = Append(@, wr.obj)]
  /\ UNCHANGED << base, arg, ret, applied, wr, rd >>

\* the with block is left: what was buffered is written, the file is closed
SaveClose ==
  /\ wr.pc = "dump"
  /\ fs' = [fs EXCEPT !.ino[wr.fd] = Doc(wr.obj)]
  /\ wr' = [wr EXCEPT !.pc = "replace"]
  /\ UNCHANGED << base, arg, ret, applied, rd >>

\* os.replace(tmp, path)
SaveReplace ==
  /\ wr.pc = "replace"
  /\ LET name == TmpName(SavePath)
     IN  fs' = IF name = SavePath THEN fs
               ELSE [fs EXCEPT !.dir = [ f \in FsNames |->
                                           IF f = SavePath THEN fs.dir[name]
                                           ELSE 0 ]]
  /\ wr' = [wr EXCEPT !.pc = "idle", !.fd = 0]
  /\ UNCHANGED << base, arg, ret, applied, rd >>

\* the process dies at a step of the call
SaveCrash ==
  /\ wr.pc # "idle"
  /\ wr' = [wr EXCEPT !.pc = "idle", !.fd = 0]
  /\ UNCHANGED << base, arg, ret, applied, fs, rd >>

\* load_json of a reader: path.exists() is false, or open fails
ReadMissing ==
  /\ rd.pc \in { "idle", "done" }
  /\ fs.dir[SavePath] = 0
  /\ rd' = [ pc |-> "done", fd |-> 0, got |-> << >>, from |-> 0, to |-> 0 ]
  /\ UNCHANGED << base, arg, ret, applied, fs, wr >>

\* load_json of a reader: open(path, "r")
ReadOpen ==
  /\ rd.pc \in { "idle", "done" }
  /\ fs.dir[SavePath] # 0
  /\ rd' = [ pc |-> "read", fd |-> fs.dir[SavePath], got |-> << >>,
             from |-> IF wr.pc = "idle" THEN Committed ELSE wr.prev,
             to |-> 0 ]
  /\ UNCHANGED << base, arg, ret, applied, fs, wr >>

\* json.load(f): the reader takes the next chunk of the file, or finds its
\* end
ReadChunk ==
  /\ rd.pc = "read"
  /\ LET data == fs.ino[rd.fd]
     IN  IF Len(rd.got) < Len(data)
         THEN rd' = [rd EXCEPT !.got = Append(@, data[Len(rd.got) + 1])]
         ELSE rd' = [rd EXCEPT !.pc = "done", !.fd = 0,
                               !.to = IF wr.pc = "idle" THEN Committed
                                      ELSE wr.obj]
  /\ UNCHANGED << base, arg, ret, applied, fs, wr >>

NextSave ==
  \/ SaveCall
  \/ SaveOpen
  \/ SaveDump
  \/ SaveClose
  \/ SaveReplace
  \/ SaveCrash
  \/ ReadMissing
  \/ ReadOpen
  \/ ReadChunk

SpecSave == InitSave /\ [][NextSave]_vars

\* the quantization of score_item -----------------------------------------
\* raw scores up to MaxRawHundredths hundredths
MaxRawHundredths == 400

\* the raw scores, in ten-millionths: every hundredth, and the value just
\* below each hundredth
RawValues ==
  { h * 100000 : h \in 0..MaxRawHundredths }
  \cup { h * 100000 - 1 : h \in 1..MaxRawHundredths }

InitQuantize ==
  /\ InitBase /\ InitNoSave
  /\ arg \in [ raw : RawValues ]
  /\ ret = << >>
  /\ applied = ""

\* the if chain of score_item on raw_score
ApplyQuantize ==
  /\ applied = ""
  /\ ret' = Quantize(arg.raw)
  /\ applied' = "quantize"
  /\ UNCHANGED << base, arg, fs, wr, rd >>

NextQuantize == ApplyQuantize

SpecQuantize == InitQuantize /\ [][NextQuantize]_vars

\* calc_index -------------------------------------------------------------
\* the scores score_item can give an indicator
ItemScores == 0..4

\* the sum of the weights, in hundredths
RECURSIVE SumWeights(_)
SumWeights(n) ==
  IF n = 0 THEN 0 ELSE SumWeights(n - 1) + WEIGHTS[ITEM_KEYS[n]]

\* the values round(total, 1) can return, in tenths: the nearest tenth, and
\* either neighbour when the sum lies halfway between two tenths, where
\* the binary sum of the products falls on either side of the decimal tie
calc_index_outcomes(scores) ==
  LET total == SumWeighted(scores, Len(ITEM_KEYS))
  IN  IF total % 10 = 5 THEN { total \div 10, total \div 10 + 1 }
      ELSE { RoundTenth(total) }

InitIndex ==
  /\ InitBase /\ InitNoSave
  /\ arg \in [ scores : [ Items -> ItemScores ] ]
  /\ ret = << >>
  /\ applied = ""

ApplyIndex ==
  /\ applied = ""
  /\ ret' \in calc_index_outcomes(arg.scores)
  /\ applied' = "calc_index"
  /\ UNCHANGED << base, arg, fs, wr, rd >>

NextIndex == ApplyIndex

SpecIndex == InitIndex /\ [][NextIndex]_vars

\* risk_bucket ------------------------------------------------------------
\* the largest composite score, in tenths
MaxIndexTenths == 1000

\* the labels in the order of the if chain
BucketLabels == << "low", "moderate", "caution", "warning", "danger" >>

InitBucket ==
  /\ InitBase /\ InitNoSave
  /\ arg \in [ score : 0..MaxIndexTenths ]
  /\ ret = << >>
  /\ applied = ""

ApplyBucket ==
  /\ applied = ""
  /\ ret' = risk_bucket(arg.score)
  /\ applied' = "risk_bucket"
  /\ UNCHANGED << base, arg, fs, wr, rd >>

NextBucket == ApplyBucket

SpecBucket == InitBucket /\ [][NextBucket]_vars

\* normalize_url ----------------------------------------------------------
\* number of query parameters of a URL
MaxParams == 2

\* the query parameters URLs are built from: two tracking keys and one
\* other key
UrlParams ==
  { << "utm_source", "x" >>, << "gclid", "7" >>, << "id", "1" >> }

RECURSIVE SeqsUpTo(_, _)
SeqsUpTo(S, n) ==
  IF n = 0 THEN { << >> }
  ELSE LET less == SeqsUpTo(S, n - 1)
       IN  less \cup { Append(q, x) : q \in less, x \in S }

UrlInputs ==
  [ scheme : { "https", "HTTPS", "" }, host : { "x.com", "X.com" },
    path : { << "a" >> }, slash : BOOLEAN,
    query : SeqsUpTo(UrlParams, MaxParams), frag : { "", "top" } ]
  \cup { NoLink }

InitUrl ==
  /\ InitBase /\ InitNoSave
  /\ arg \in [ url : UrlInputs ]
  /\ ret = << >>
  /\ applied = ""

ApplyUrl ==
  /\ applied = ""
  /\ ret' = normalize_url(arg.url)
  /\ applied' = "normalize_url"
  /\ UNCHANGED << base, arg, fs, wr, rd >>

NextUrl == ApplyUrl

SpecUrl == InitUrl /\ [][NextUrl]_vars

\* norm_id ----------------------------------------------------------------
\* titles that differ in case, punctuation or whitespace, and another one
IdTitles ==
  { << "Grid", "delay" >>, << "grid", "delay" >>, << "grid", "delay", "!" >>,
    << "grid", "delay", " " >>, << "chip" >> }

\* links that differ in tracking parameters, and others
IdLinks ==
  { NoLink, EntryGrid.link, EntryGridTracked.link, EntryOld.link }

\* what a run knows of an entry when it computes the id (l.630)
Sightings ==
  [ item : { "power_permit_delays", "dc_vacancy" }, title : IdTitles,
    link : IdLinks ]

\* norm_id(f"OVERALL|{item_key}|{title}", link)
IdOf(x) == norm_id(<< "OVERALL", x.item, x.title >>, x.link)

InitId ==
  /\ InitBase /\ InitNoSave
  /\ arg \in [ a : Sightings, b : Sightings ]
  /\ ret = << >>
  /\ applied = ""

\* the id of two sightings, the first computed a second time
ApplyId ==
  /\ applied = ""
  /\ ret' = [ a |-> IdOf(arg.a), b |-> IdOf(arg.b), again |-> IdOf(arg.a) ]
  /\ applied' = "norm_id"
  /\ UNCHANGED << base, arg, fs, wr, rd >>

NextId == ApplyId

SpecId == InitId /\ [][NextId]_vars

\* main as a function of the documents it loads and of what the feeds and
\* the classifier deliver ------------------------------------------------
\* number of entries the feeds of a run deliver
MaxFeed == 2

\* the state records a run may find
StateRecords ==
  { NoState,
    [ last_run_at |-> FirstDay, last_overall_score |-> 1000,
      last_risk_level |-> "danger" ],
    [ last_run_at |-> FirstDay - 1, last_overall_score |-> 0,
      last_risk_level |-> "low" ] }

\* what llm_classify does if it is called for the entry: it returns a
\* response, or its last attempt raises
ClassifyOutcomes ==
  { RespStrong, RespIrrelevant, [ kind |-> "raise", ex |-> "APITimeoutError" ] }

\* an entry of the feed of an indicator's query, with the classifier's
\* answer to it
Deliveries ==
  [ item : { "power_permit_delays", "dc_vacancy" }, e : FeedEntries,
    cls : ClassifyOutcomes ]

\* the article stores a run may find: none, or an article an earlier run
\* of the day classified
MainStores ==
  { EmptyStore,
    LET a == StoredArticle("power_permit_delays", << "grid", "queue" >>,
                           FirstDay, FirstDay)
    IN  a.id :> [a EXCEPT !.llm = RespStrong, !.llm_model = PRIMARY_MODEL,
                          !.llm_classified_at = FirstDay] }

\* a slip: a call that raised is marked on the article but not counted
after_classify_Uncounted(h, item_key, cls, day) ==
  IF cls.kind = "raise"
  THEN [ store |-> [h.store EXCEPT ![h.cur].llm_error = cls.ex],
         seen |-> h.seen, stats |-> h.stats ]
  ELSE [ store |-> [h.store EXCEPT
                      ![h.cur].llm = cls,
                      ![h.cur].llm_model = PRIMARY_MODEL,
                      ![h.cur].llm_classified_at = day],
         seen |-> h.seen,
         stats |-> [h.stats EXCEPT
                      !.llm_calls = @ + 1,
                      !.per_item_llm_calls[item_key] = @ + 1] ]

\* the try / except around llm_classify, for the article h.cur
after_classify(h, item_key, cls, day) ==
  IF cls.kind = "raise"
  THEN [ store |-> [h.store EXCEPT ![h.cur].llm_error = cls.ex],
         seen |-> h.seen,
         stats |-> [h.stats EXCEPT !.llm_errors = @ + 1] ]
  ELSE [ store |-> [h.store EXCEPT
                      ![h.cur].llm = cls,
                      ![h.cur].llm_model = PRIMARY_MODEL,
                      ![h.cur].llm_classified_at = day],
         seen |-> h.seen,
         stats |-> [h.stats EXCEPT
                      !.llm_calls = @ + 1,
                      !.per_item_llm_calls[item_key] = @ + 1] ]

\* the loop "for e in entries" over all that is delivered, from entry i on
RECURSIVE fetch_entries(_, _, _, _)
fetch_entries(acc, feed, i, day) ==
  IF i > Len(feed) THEN acc
  ELSE LET x == feed[i]
           h == HandleEntry(acc.store, acc.seen, acc.stats, x.item, x.e, day)
           after ==
             IF ~h.call
               THEN [ store |-> h.store, seen |-> h.seen, stats |-> h.stats ]
               ELSE after_classify(h, x.item, x.cls, day)
       IN  fetch_entries(after, feed, i + 1, day)

\* a slip: a run that finds the state record of the same day keeps the
\* store as loaded
main_SkipsSameDay(state, art, feed, day) ==
  LET pruned == prune_articles_store(art, day)
      f == IF state.last_run_at = day
           THEN [ store |-> pruned.kept ]
           ELSE fetch_entries(
                  [ store |-> pruned.kept,
                    seen |-> build_existing_dedup_set(pruned.kept),
                    stats |-> NoStats ], feed, 1, day)
      so == score_overall(Values(f.store), day)
  IN  [ store |-> f.store, scores |-> so.scores, total |-> so.total,
        bucket |-> so.bucket,
        state |-> [state EXCEPT !.last_run_at = day,
                                !.last_overall_score = so.total,
                                !.last_risk_level = so.bucket] ]

\* main: the state record is loaded first; the store is loaded, pruned,
\* filled and saved; the scores are computed; the state record is saved
main(state, art, feed, day) ==
  LET pruned == prune_articles_store(art, day)
      f == fetch_entries(
             [ store |-> pruned.kept,
               seen |-> build_existing_dedup_set(pruned.kept),
               stats |-> [NoStats EXCEPT
                            !.store_pruned_removed = pruned.removed] ],
             feed, 1, day)
      so == score_overall(Values(f.store), day)
  IN  [ store |-> f.store, scores |-> so.scores, total |-> so.total,
        bucket |-> so.bucket,
        state |-> [state EXCEPT !.last_run_at = day,
                                !.last_overall_score = so.total,
                                !.last_risk_level = so.bucket] ]

InitMain ==
  /\ InitBase /\ InitNoSave
  /\ arg \in [ a : StateRecords, b : StateRecords, art : MainStores,
                feed : SeqsUpTo(Deliveries, MaxFeed), day : { FirstDay } ]
  /\ ret = << >>
  /\ applied = ""

\* two runs that differ in the state record they find
ApplyMain ==
  /\ applied = ""
  /\ ret' = [ a |-> main(arg.a, arg.art, arg.feed, arg.day),
              b |-> main(arg.b, arg.art, arg.feed, arg.day) ]
  /\ applied' = "main"
  /\ UNCHANGED << base, arg, fs, wr, rd >>

NextMain == ApplyMain

SpecMain == InitMain /\ [][NextMain]_vars

\* the counters of fetch_articles_with_llm --------------------------------
\* number of entries the feeds of a run deliver
MaxFetched == 3

\* largest classification budget
MaxFetchBudget == 3

\* entries with a keyword of the power indicator in the title, and one
\* without
FetchEntries ==
  { EntryGrid, EntryChip,
    Entry(<< "queue" >>, Url("x.com", << "q" >>, << >>), FirstDay, << >>),
    Entry(<< "backlog" >>, Url("x.com", << "b" >>, << >>), FirstDay, << >>) }

FetchDeliveries ==
  [ item : { "power_permit_delays", "dc_vacancy" }, e : FetchEntries,
    cls : { RespStrong, [ kind |-> "raise", ex |-> "APITimeoutError" ] } ]

InitFetch ==
  /\ clock = FirstDay
  /\ runs = 0
  /\ FAST_TEST \in BOOLEAN
  /\ MAX_LLM_CALLS_PER_RUN \in 0..MaxFetchBudget
  /\ InitDisk
  /\ InitLocals
  /\ InitNoSave
  /\ arg \in [ art : MainStores, feed : SeqsUpTo(FetchDeliveries, MaxFetched),
                day : { FirstDay } ]
  /\ ret = << >>
  /\ applied = ""

\* fetch_articles_with_llm: the store and run_stats it returns
ApplyFetch ==
  /\ applied = ""
  /\ LET pruned == prune_articles_store(arg.art, arg.day)
     IN  ret' = fetch_entries(
                  [ store |-> pruned.kept,
                    seen |-> build_existing_dedup_set(pruned.kept),
                    stats |-> [NoStats EXCEPT
                                 !.store_pruned_removed = pruned.removed] ],
                  arg.feed, 1, arg.day)
  /\ applied' = "fetch_articles_with_llm"
  /\ UNCHANGED << base, arg, fs, wr, rd >>

NextFetch == ApplyFetch

SpecFetch == InitFetch /\ [][NextFetch]_vars

(***************************************************************************)
(* Properties                                                              *)
(***************************************************************************)
\* the articles a run in progress has inserted itself
Inserted(p) == DOMAIN store[p] \ DOMAIN loaded[p]

\* one of the indicator's patterns occurs in the title or in the summary
KeywordHit(a) ==
  \E pat \in STRONG_KEYWORDS(a.item) :
    \/ \E i \in 1..Len(a.title) : MatchesAt(a.title, pat, i)
    \/ \E i \in 1..Len(a.summary) : MatchesAt(a.summary, pat, i)

\* C1: in any run, the number of articles for which llm_classify is called,
\* failed calls included, never exceeds MAX_LLM_CALLS_PER_RUN.
C1_CallCeiling ==
  \A p \in Procs : pc[p] # "idle" => invoked[p] <= MAX_LLM_CALLS_PER_RUN

\* C2: an article stored as skipped for budget by an earlier run, sighted
\* again (same title, link and indicator) in a run that still has budget,
\* with a keyword hit and within the age ceiling, is sent to the classifier.
C2_SkippedBudgetClassifiedLater ==
  [][ \A e \in FeedEntries :
        ( /\ ProcessEntry(1, e)
          /\ \E aid \in DOMAIN loaded[1] :
               /\ loaded[1][aid].llm_skipped = "max_llm_calls_per_run"
               /\ store[1][aid] = loaded[1][aid]
               /\ loaded[1][aid].title = e.title
               /\ loaded[1][aid].link = e.link
               /\ loaded[1][aid].item = urls[qidx[1]]
               /\ KeywordHit(loaded[1][aid])
          /\ run_stats[1].llm_calls < MAX_LLM_CALLS_PER_RUN
          /\ ~(FAST_TEST /\ run_stats[1].per_item_llm_calls[urls[qidx[1]]] >= 2)
          /\ parse_pub_date(e.published, today[1]) >= today[1] - 21 )
        => pc'[1] = "classify" ]_vars

\* C3: with a budget of 0 a run calls the classifier for no article, marks
\* every article it inserts as skipped for budget, and its scores are those
\* of the articles that were classified in the store when the run loaded it.
C3_BudgetZero ==
  \A p \in Procs :
    (pc[p] # "idle" /\ MAX_LLM_CALLS_PER_RUN = 0) =>
      /\ invoked[p] = 0
      /\ run_stats[p].llm_calls = 0
      /\ \A aid \in Inserted(p) :
           /\ store[p][aid].llm_skipped = "max_llm_calls_per_run"
           /\ store[p][aid].llm = NoLLM
           /\ store[p][aid].llm_error = ""
      /\ LET before == { a \in Values(loaded[p]) : a.llm # NoLLM }
             now == score_overall(Values(store[p]), today[p])
             old == score_overall(before, today[p])
         IN  now.scores = old.scores /\ now.total = old.total

\* C3 witness: a run with budget 0 has inserted an article with a keyword
\* hit, and its composite score, from earlier evidence, is not 0.
C3_Witness ==
  \E p \in Procs :
    /\ pc[p] = "score" /\ MAX_LLM_CALLS_PER_RUN = 0
    /\ \E aid \in Inserted(p) : KeywordHit(store[p][aid])
    /\ score_overall(Values(store[p]), today[p]).total > 0

\* C4: a failed classification leaves an error marker with the failure
\* detail and no outcome on its article; the run goes on through every
\* query, saves the store and completes (no invocation ends without its
\* run log record).
C4_FailureDoesNotAbort ==
  /\ \A p \in Procs :
       /\ \A aid \in DOMAIN store[p] :
            store[p][aid].llm_error # "" =>
              /\ store[p][aid].llm_error \in ClassifyErrors
              /\ store[p][aid].llm = NoLLM
              /\ store[p][aid].llm_skipped = ""
       /\ pc[p] = "score" =>
            /\ artFile = store[p]
            /\ run_stats[p].urls_total = Len(urls)
            /\ Cardinality({ aid \in Inserted(p) : store[p][aid].llm_error # "" })
                 = run_stats[p].llm_errors
  /\ (\A p \in Procs : pc[p] = "idle") => Len(runLog) = runs

\* C4 witness: the store is saved with an article of the first query marked
\* as failed and an article inserted by the second query after it.
C4_Witness ==
  \E p \in Procs :
    /\ pc[p] = "score" /\ FAST_TEST /\ artFile = store[p]
    /\ \E a, b \in Inserted(p) :
         /\ store[p][a].llm_error # "" /\ store[p][a].item = urls[1]
         /\ store[p][b].item = urls[2]

\* C5: llm_classify makes at most 3 attempts (1 in fast mode); the wait
\* before attempt k+1 is k seconds; an attempt follows only a failed one;
\* the call ends with a result, or with the failure of the last attempt.
C5_RetryPolicy ==
  /\ [](\A p \in Procs :
          pc[p] = "classify" =>
            /\ attempt[p] + 1 <= (IF FAST_TEST THEN 1 ELSE 3)
            /\ Len(sleeps[p]) = attempt[p]
            /\ \A k \in 1..Len(sleeps[p]) : sleeps[p][k] = k)
  /\ [][ \A p \in Procs :
           /\ (pc[p] = "classify" /\ pc'[p] = "classify") =>
                /\ store'[p] = store[p]
                /\ attempt'[p] \in { attempt[p], attempt[p] + 1 }
           /\ (pc[p] = "classify" /\ pc'[p] # "classify") =>
                LET a == store'[p][cur[p]]
                IN  \/ a.llm # NoLLM /\ a.llm_error = ""
                    \/ /\ a.llm = NoLLM /\ a.llm_error # ""
                       /\ attempt[p] + 1 = (IF FAST_TEST THEN 1 ELSE 3) ]_vars

\* C5 witness: the third attempt of a call, after waits of 1 s and 2 s.
C5_Witness ==
  \E p \in Procs :
    pc[p] = "classify" /\ attempt[p] = 2 /\ sleeps[p] = << 1, 2 >>

\* C6: a response that violates the schema is never stored as an article's
\* classification and never makes an article eligible for scoring.
C6_SchemaViolationIsFailure ==
  /\ \A aid \in DOMAIN artFile :
       artFile[aid].llm # NoLLM => LLM_SCHEMA(artFile[aid].llm)
  /\ \A p \in Procs : \A aid \in DOMAIN store[p] :
       is_relevant(store[p][aid]) => LLM_SCHEMA(store[p][aid].llm)

\* C7: the classifier is called only for an article with a keyword hit of
\* its indicator in the title or the summary.
C7_PrefilterGatesClassifier ==
  \A p \in Procs :
    /\ pc[p] = "classify" => KeywordHit(store[p][cur[p]])
    /\ \A aid \in DOMAIN store[p] :
         (store[p][aid].llm # NoLLM \/ store[p][aid].llm_error # "") =>
           KeywordHit(store[p][aid])

\* C7 witness: the classifier is called for an article whose summary, and
\* not its title, has the keyword.
C7_Witness ==
  \E p \in Procs :
    /\ pc[p] = "classify"
    /\ strong_keyword_hit(store[p][cur[p]].item, store[p][cur[p]].title) = 0
    /\ strong_keyword_hit(store[p][cur[p]].item, store[p][cur[p]].summary) = 1

\* C8 as stated: every article a run inserts without a keyword hit is
\* marked prefilter_no_strong_keywords, whatever budget remains.
C8_NoHitAlwaysPrefilterSkipped ==
  \A p \in Procs : \A aid \in Inserted(p) :
    ~KeywordHit(store[p][aid]) =>
      store[p][aid].llm_skipped = "prefilter_no_strong_keywords"

\* C8 amended: an article inserted without a keyword hit is marked
\* prefilter_no_strong_keywords when budget remains as it is processed and
\* as skipped for budget when none remains; either way it has no outcome
\* and is not eligible for scoring.
C8_NoHitSkipped ==
  /\ [](\A p \in Procs : \A aid \in Inserted(p) :
          ~KeywordHit(store[p][aid]) =>
            /\ store[p][aid].llm = NoLLM
            /\ store[p][aid].llm_error = ""
            /\ store[p][aid].llm_skipped # ""
            /\ ~is_relevant(store[p][aid]))
  /\ [][ \A p \in Procs :
           pc[p] = "entries" =>
             \A aid \in DOMAIN store'[p] \ DOMAIN store[p] :
               ~KeywordHit(store'[p][aid]) =>
                 store'[p][aid].llm_skipped =
                   IF run_stats[p].llm_calls >= MAX_LLM_CALLS_PER_RUN
                   THEN "max_llm_calls_per_run"
                   ELSE IF FAST_TEST
                           /\ run_stats[p].per_item_llm_calls[urls[qidx[p]]] >= 2
                   THEN "max_llm_calls_per_item_per_run"
                   ELSE "prefilter_no_strong_keywords" ]_vars

\* C8 witness: with budget left, an inserted article without a keyword hit
\* is marked by the prefilter.
C8_Witness ==
  \E p \in Procs : \E aid \in Inserted(p) :
    /\ ~KeywordHit(store[p][aid])
    /\ store[p][aid].llm_skipped = "prefilter_no_strong_keywords"
    /\ run_stats[p].llm_calls < MAX_LLM_CALLS_PER_RUN

\* the dedup key of a stored article: its normalized link when there is
\* one, else its normalized title
StoredKey(a) ==
  IF a.link_norm # NoLink THEN << "L", a.link_norm >>
  ELSE << "T", a.title_norm >>

UniqueKeys(st) ==
  \A x, y \in DOMAIN st : x # y => StoredKey(st[x]) # StoredKey(st[y])

C10_OldDiscarded ==
  /\ [](\A p \in Procs : \A aid \in Inserted(p) :
          ArticlePubDate(store[p][aid]) >= today[p] - 21)
  /\ [][ \A e \in FeedEntries :
           ( /\ ProcessEntry(1, e)
             /\ parse_pub_date(e.published, today[1]) < today[1] - 21 )
           => /\ store'[1] = store[1]
              /\ seen_dedup'[1] = seen_dedup[1]
              /\ run_stats'[1] = run_stats[1]
              /\ invoked'[1] = invoked[1]
              /\ pc'[1] = "entries" ]_vars

\* C10 witness: an entry has just been discarded for its age, in a run
\* whose store also holds the article of the same title and link.
C10_Witness ==
  \E p \in Procs :
    /\ outcome[p] = "too_old"
    /\ \E a \in Values(store[p]) :
         a.title = EntryGrid.title /\ a.link = EntryGrid.link

\* an entry of a store that is an article with a publish date before the
\* retention cutoff of the day
Expired(x, day) ==
  IsDict(x) /\ ArticlePubDate(x) < day - ARTICLES_RETENTION_DAYS

\* C11 as stated: prune_articles_store removes every article published
\* before today - ARTICLES_RETENTION_DAYS, keeps every other entry of the
\* store unchanged, the boundary day included, and counts what it dropped.
C11_PruneKeepsAllOthers ==
  applied = "prune_articles_store" =>
    /\ \A aid \in DOMAIN arg.store :
         IF Expired(arg.store[aid], arg.day)
         THEN aid \notin DOMAIN ret.kept
         ELSE aid \in DOMAIN ret.kept /\ ret.kept[aid] = arg.store[aid]
    /\ DOMAIN ret.kept \subseteq DOMAIN arg.store
    /\ ret.removed = Cardinality(DOMAIN arg.store \ DOMAIN ret.kept)

\* C11 amended: prune_articles_store removes every article published
\* before today - ARTICLES_RETENTION_DAYS and every entry that is not an
\* object, keeps every other article unchanged, the boundary day included,
\* and counts what it dropped.
C11_PruneKeepsOtherArticles ==
  applied = "prune_articles_store" =>
    /\ \A aid \in DOMAIN arg.store :
         IF Expired(arg.store[aid], arg.day) \/ ~IsDict(arg.store[aid])
         THEN aid \notin DOMAIN ret.kept
         ELSE aid \in DOMAIN ret.kept /\ ret.kept[aid] = arg.store[aid]
    /\ DOMAIN ret.kept \subseteq DOMAIN arg.store
    /\ ret.removed = Cardinality(DOMAIN arg.store \ DOMAIN ret.kept)

\* C11 witness: a store with an article of the day before the cutoff, one
\* of the cutoff day and one dated by its fetch day has been pruned: one
\* is removed, two are kept.
C11_Witness ==
  /\ applied = "prune_articles_store"
  /\ \E x, y, z \in DOMAIN arg.store :
       /\ IsDict(arg.store[x]) /\ IsDict(arg.store[y]) /\ IsDict(arg.store[z])
       /\ arg.store[x].published = arg.day - ARTICLES_RETENTION_DAYS - 1
       /\ arg.store[y].published = arg.day - ARTICLES_RETENTION_DAYS
       /\ arg.store[z].published = NoDate
       /\ arg.store[z].fetched_at = arg.day - ARTICLES_RETENTION_DAYS
  /\ ret.removed = 1
  /\ Cardinality(DOMAIN ret.kept) = 2

\* the rows of a document that carry a date
RowsOfDate(rows, d) == { i \in 1..Len(rows) : rows[i].date = d }

\* the dates on which a run completed: those of the run log's records
CompletedDates == { runLog[i].run_at : i \in 1..Len(runLog) }

\* main has just returned
Returns(p) == pc[p] = "score" /\ pc'[p] = "idle"

\* C12: the risk log and the daily snapshot log hold exactly one record for
\* every date on which a run completed; a run replaces the record of its
\* date by its own and leaves the records of other dates as they are.
C12_OneRecordPerDate ==
  /\ [](/\ { riskLog[i].date : i \in 1..Len(riskLog) } = CompletedDates
        /\ { dailyScores[i].date : i \in 1..Len(dailyScores) } = CompletedDates
        /\ \A d \in CompletedDates :
             /\ Cardinality(RowsOfDate(riskLog, d)) = 1
             /\ Cardinality(RowsOfDate(dailyScores, d)) = 1)
  /\ [][ \A p \in Procs : Returns(p) =>
           /\ \A i \in RowsOfDate(riskLog', today[p]) :
                riskLog'[i] = RiskLogEntry(p)
           /\ \A i \in RowsOfDate(dailyScores', today[p]) :
                dailyScores'[i] = DailySnapshot(p)
           /\ \A d \in CompletedDates \ { today[p] } :
                /\ { riskLog'[i] : i \in RowsOfDate(riskLog', d) }
                     = { riskLog[i] : i \in RowsOfDate(riskLog, d) }
                /\ { dailyScores'[i] : i \in RowsOfDate(dailyScores', d) }
                     = { dailyScores[i] : i \in RowsOfDate(dailyScores, d) } ]_vars

\* C12 witness: two runs of the same date have completed with different
\* counters; each log holds the one record of the second.
C12_Witness ==
  /\ Len(runLog) = 2
  /\ runLog[1].run_at = runLog[2].run_at
  /\ runLog[1].stats # runLog[2].stats
  /\ Len(riskLog) = 1 /\ riskLog[1].run_stats = runLog[2].stats
  /\ Len(dailyScores) = 1
  /\ dailyScores[1].new_articles_today = runLog[2].stats.new_articles
  /\ runLog[1].stats.new_articles # runLog[2].stats.new_articles

\* C13: the run log only grows at its end: a run that completes adds one
\* record, its own, after the records that were there, and no step changes,
\* reorders or removes a record.
C13_RunLogAppendOnly ==
  /\ [][ /\ Len(runLog') >= Len(runLog)
         /\ SubSeq(runLog', 1, Len(runLog)) = runLog
         /\ Len(runLog') <= Len(runLog) + 1 ]_vars
  /\ [][ \A p \in Procs : Returns(p) =>
           /\ Len(runLog') = Len(runLog) + 1
           /\ runLog'[Len(runLog')] = RunLogRow(p) ]_vars
  /\ []((\A p \in Procs : pc[p] = "idle") => Len(runLog) = runs)

\* C13 witness: the run log holds the records of two runs, in their order.
C13_Witness ==
  /\ Len(runLog) = 2
  /\ runLog[1].run_at < runLog[2].run_at
  /\ runLog[1].stats.new_articles > 0

\* C14: while save_json writes a document, and after a crash at any step
\* of the write, the path holds the complete previous document or the
\* complete new one (or no file when none was ever saved); a reader gets a
\* complete document, one that was at the path while it read.
C14_AtomicReplace ==
  /\ fs.dir[SavePath] # 0 => Committed # 0
  /\ wr.pc # "idle" => Committed \in { wr.prev, wr.obj }
  /\ rd.pc = "done" =>
       \/ rd.got = << >> /\ rd.from = 0
       \/ \E v \in rd.from..rd.to : v # 0 /\ rd.got = Doc(v)

\* C14 witness: a reader that opened the path before a save replaced the
\* document ends its read, after a later save has crashed while writing,
\* with the complete earlier document.
C14_Witness ==
  /\ rd.pc = "done" /\ rd.got = Doc(1)
  /\ Committed = 2
  /\ wr.obj = 3 /\ wr.pc = "idle"
  /\ fs.dir[TmpName(SavePath)] # 0
  /\ Len(fs.ino[fs.dir[TmpName(SavePath)]]) = 1

\* every document of data/ parses, has its type, and holds objects only
DiskWellFormed ==
  /\ \A f \in FileNames : fileKind[f] = "ok"
  /\ \A aid \in DOMAIN artFile : IsDict(artFile[aid])
  /\ ~RowsRaise(riskLog)
  /\ ~RowsRaise(dailyScores)

\* the risk log and the daily snapshot log hold a record of the date
EmittedFor(rlog, daily, d) ==
  /\ \E i \in 1..Len(rlog) : IsDict(rlog[i]) /\ rlog[i].date = d
  /\ \E i \in 1..Len(daily) : IsDict(daily[i]) /\ daily[i].date = d

\* an invocation ends
Ends(p) == pc[p] # "idle" /\ pc'[p] = "idle"

\* C15: a feed failure skips its query only and is counted; whatever the
\* feeds and the classifier do, a run that finds well-formed documents
\* ends with a risk log entry and a daily snapshot of its date written.
C15_NoFailureIsFatal ==
  /\ [][ \A p \in Procs :
           (pc[p] = "fetch" /\ pc'[p] = "fetch" /\ qidx'[p] # qidx[p]) =>
             /\ qidx'[p] = qidx[p] + 1
             /\ run_stats'[p].urls_fail = run_stats[p].urls_fail + 1
             /\ store'[p] = store[p] ]_vars
  /\ [][ \A p \in Procs :
           (Ends(p) /\ DiskWellFormed) =>
             EmittedFor(riskLog', dailyScores', today[p]) ]_vars

\* C16: whatever is wrong with a stored document (unparseable, of another
\* top-level type, an entry that is no object), a run whose scoring does
\* not fail ends with the day's records written and its run log record
\* appended.
C16_MalformedDocumentFallsBack ==
  [][ \A p \in Procs :
        (Ends(p) /\ ~ScoringRaises(Values(store[p]), today[p])) =>
          /\ EmittedFor(riskLog', dailyScores', today[p])
          /\ Len(runLog') = Len(runLog) + 1 ]_vars

\* an article with a classification outcome that says relevant, with a
\* confidence of MIN_CONFIDENCE or more
Eligible(a) ==
  /\ a.llm.kind = "object"
  /\ a.llm.relevant = TRUE
  /\ a.llm.confidence >= 60

\* the publish age of an article in days
AgeOf(a, day) == day - (IF a.published # NoDate THEN a.published ELSE a.fetched_at)

\* C17: only articles with an outcome that is relevant with confidence
\* >= 60 are in an indicator's recent lists and evidence; the scores and
\* the sums, counts and keyword hits are those of the eligible articles
\* alone, whatever skipped, failed, irrelevant or low-confidence articles
\* are stored beside them.
C17_OnlyEligibleContribute ==
  applied = "score_overall" =>
    LET elig == { a \in arg.articles : Eligible(a) }
    IN  /\ \A k \in Items :
             /\ ret.recent_14[k] \subseteq elig
             /\ ret.recent_3[k] \subseteq elig
             /\ ret.evidence[k] \subseteq elig
        /\ \A a \in arg.articles :
             (a.llm_skipped # "" \/ a.llm_error # "") =>
               \A k \in Items : a \notin ret.recent_14[k] \cup ret.recent_3[k]
        /\ ret.overall = score_overall(elig, arg.day)

\* C17 witness: an article at the confidence floor is scored beside one
\* below the floor and one skipped for budget, all of today: one article
\* is counted.
C17_Witness ==
  /\ applied = "score_overall"
  /\ \E a, b, c \in arg.articles :
       /\ a.llm.confidence = 60 /\ a.llm.relevant /\ AgeOf(a, arg.day) = 0
       /\ b.llm.confidence = 59 /\ b.llm.relevant /\ AgeOf(b, arg.day) = 0
       /\ c.llm_skipped = "max_llm_calls_per_run" /\ AgeOf(c, arg.day) = 0
  /\ ret.overall.meta[ScoreItem].recent14_count = 1
  /\ ret.overall.meta[ScoreItem].decay_sum > 0

\* C18: the decay sum and the keyword hits are those of the eligible
\* articles aged 0 to 14 days, the fresh sum that of those aged 0 to 2
\* days; the decay weight is 0 from 15 days on; articles older than 14
\* days change no score; recent_3 is a subset of recent_14.
C18_ScoringWindow ==
  applied = "score_overall" =>
    LET in14 == { a \in arg.articles : AgeOf(a, arg.day) \in 0..14 }
        in3 == { a \in arg.articles : AgeOf(a, arg.day) \in 0..2 }
    IN  /\ \A k \in Items :
             /\ ret.recent_14[k] \subseteq in14
             /\ ret.recent_3[k] \subseteq in3
             /\ ret.recent_3[k] \subseteq ret.recent_14[k]
             /\ ret.overall.meta[k].decay_sum = decay_sum(k, in14, arg.day)
             /\ ret.overall.meta[k].strong_hits14 = strong_hits(k, in14, arg.day)
             /\ ret.overall.meta[k].fresh_sum = fresh_sum(k, in3, arg.day)
        /\ ret.overall.scores = score_overall(in14, arg.day).scores
        /\ \A age \in 15..(ARTICLES_RETENTION_DAYS + 1) :
             article_decay_weight(arg.day - age, arg.day) = 0
        /\ \A a \in arg.articles :
             (Eligible(a) /\ AgeOf(a, arg.day) \in 0..14) =>
               a \in ret.recent_14[a.item]

\* C18 witness: eligible articles of 2, 14 and 15 days are scored: one is
\* in the fresh sum, two are in the decay sum.
C18_Witness ==
  /\ applied = "score_overall"
  /\ \E a, b, c \in arg.articles :
       /\ Eligible(a) /\ AgeOf(a, arg.day) = 2
       /\ Eligible(b) /\ AgeOf(b, arg.day) = 14
       /\ Eligible(c) /\ AgeOf(c, arg.day) = 15
  /\ ret.overall.meta[ScoreItem].recent14_count = 2
  /\ ret.overall.meta[ScoreItem].recent3_count = 1
  /\ ret.overall.meta[ScoreItem].fresh_sum > 0

\* C19: the quantization of a raw score >= 0 is total with result in
\* {0,1,2,3,4}, maps raw < 0.6 to 0, [0.6,1.5) to 1, [1.5,2.5) to 2,
\* [2.5,3.5) to 3 and raw >= 3.5 to 4, each raw score to exactly one of
\* them, and is monotonic non-decreasing
C19_QuantizeIntervals ==
  applied = "quantize" =>
    /\ ret \in 0..4
    /\ (ret = 0) <=> (arg.raw < 6000000)
    /\ (ret = 1) <=> (6000000 <= arg.raw /\ arg.raw < 15000000)
    /\ (ret = 2) <=> (15000000 <= arg.raw /\ arg.raw < 25000000)
    /\ (ret = 3) <=> (25000000 <= arg.raw /\ arg.raw < 35000000)
    /\ (ret = 4) <=> (35000000 <= arg.raw)
    /\ \A r \in RawValues : r >= arg.raw => Quantize(r) >= ret

\* a raw score on the 1.5 boundary has been quantized to 2
C19_Witness ==
  applied = "quantize" /\ arg.raw = 15000000 /\ ret = 2

\* C20: the composite score is monotonic non-decreasing in each single
\* indicator score, the other five fixed; the weights sum to 1.0; the
\* composite is 0 for all scores 0, 100 for all scores 4, and always
\* within [0,100] (ret is in tenths)
C20_IndexMonotonicBounded ==
  applied = "calc_index" =>
    /\ SumWeights(Len(ITEM_KEYS)) = 100
    /\ ret \in 0..1000
    /\ (\A k \in Items : arg.scores[k] = 0) => ret = 0
    /\ (\A k \in Items : arg.scores[k] = 4) => ret = 1000
    /\ \A k \in Items :
         arg.scores[k] < 4 =>
           \A hi \in calc_index_outcomes(
                      [arg.scores EXCEPT ![k] = arg.scores[k] + 1]) :
             hi >= ret

\* the composite of a vector whose weighted sum lies halfway between two
\* tenths has been rounded up, and an indicator can still be raised
C20_Witness ==
  /\ applied = "calc_index"
  /\ SumWeighted(arg.scores, Len(ITEM_KEYS)) % 10 = 5
  /\ ret = SumWeighted(arg.scores, Len(ITEM_KEYS)) \div 10 + 1
  /\ \E k \in Items : arg.scores[k] < 4

\* the position of a label in the order of severity
Severity(label) == CHOOSE i \in 1..Len(BucketLabels) : BucketLabels[i] = label

\* C21: risk_bucket maps every composite score of [0,100] to exactly one
\* of the five labels, by [0,20), [20,40), [40,60), [60,80), [80,100], and
\* the severity of the label is non-decreasing in the score
C21_BucketsPartition ==
  applied = "risk_bucket" =>
    /\ \E i \in 1..Len(BucketLabels) : ret = BucketLabels[i]
    /\ (ret = "low") <=> (arg.score < 200)
    /\ (ret = "moderate") <=> (200 <= arg.score /\ arg.score < 400)
    /\ (ret = "caution") <=> (400 <= arg.score /\ arg.score < 600)
    /\ (ret = "warning") <=> (600 <= arg.score /\ arg.score < 800)
    /\ (ret = "danger") <=> (800 <= arg.score)
    /\ \A hi \in arg.score..MaxIndexTenths :
         Severity(risk_bucket(hi)) >= Severity(ret)

\* the score 20.0, on a boundary, has been given the second label
C21_Witness ==
  applied = "risk_bucket" /\ arg.score = 200 /\ ret = "moderate"

\* "https://x.com/a/?utm_source=x&id=1"
ExampleUrl ==
  [ scheme |-> "https", host |-> "x.com", path |-> << "a" >>,
    slash |-> TRUE, query |-> << << "utm_source", "x" >>, << "id", "1" >> >>,
    frag |-> "" ]

\* "https://x.com/a?id=1"
ExampleUrlClean == Url("x.com", << "a" >>, << << "id", "1" >> >>)

\* C22: normalize_url removes every tracking query parameter, preserves
\* every other parameter, drops the fragment and drops the trailing slash
\* of the path; the normalization of "https://x.com/a/?utm_source=x&id=1"
\* equals that of "https://x.com/a?id=1"
C22_NormalizeUrl ==
  (applied = "normalize_url" /\ arg.url # NoLink) =>
    /\ \A i \in 1..Len(ret.query) : ~IsTracking(ret.query[i][1])
    /\ ret.query = SelectSeq(arg.url.query, LAMBDA kv : ~IsTracking(kv[1]))
    /\ ret.frag = ""
    /\ ret.slash = FALSE
    /\ arg.url = ExampleUrl => ret = normalize_url(ExampleUrlClean)

\* C23, as stated: two sightings that agree on the indicator, on the
\* normalized title and on the normalized link receive the same id, and
\* the id of a sighting computed twice is the same
C23_IdOfNormalizedTitle ==
  applied = "norm_id" =>
    /\ ret.again = ret.a
    /\ ( /\ arg.a.item = arg.b.item
         /\ normalize_title(arg.a.title) = normalize_title(arg.b.title)
         /\ normalize_url(arg.a.link) = normalize_url(arg.b.link) )
       => ret.a = ret.b

\* C23, amended: two sightings that agree on the indicator, on the title
\* up to trailing whitespace and on the normalized link receive the same
\* id, and the id of a sighting computed twice is the same
C23_IdOfTitle ==
  applied = "norm_id" =>
    /\ ret.again = ret.a
    /\ ( /\ arg.a.item = arg.b.item
         /\ RStrip(arg.a.title) = RStrip(arg.b.title)
         /\ normalize_url(arg.a.link) = normalize_url(arg.b.link) )
       => ret.a = ret.b

\* two sightings of one indicator whose titles differ in trailing
\* whitespace only and whose links differ in tracking parameters only have
\* been given one id
C23_Witness ==
  /\ applied = "norm_id"
  /\ arg.a.item = arg.b.item
  /\ arg.a.title # arg.b.title
  /\ arg.a.link # arg.b.link /\ arg.a.link # NoLink /\ arg.b.link # NoLink
  /\ ret.a = ret.b

\* C24: across serialized runs, an article in the saved store is, after
\* every step of a later run, still there under the same id with identical
\* fields, or it was removed by the pruning of the run that saves and is
\* older than the retention horizon of that run; and a run changes no
\* article it loaded: outcome and status go to articles it inserted itself
C24_StoredNeverChanges ==
  /\ [](\A p \in Procs :
          pc[p] # "idle" =>
            \A aid \in DOMAIN loaded[p] :
              aid \in DOMAIN store[p] /\ store[p][aid] = loaded[p][aid])
  /\ [][ \A aid \in DOMAIN artFile :
           \/ aid \in DOMAIN artFile' /\ artFile'[aid] = artFile[aid]
           \/ /\ aid \notin DOMAIN artFile'
              /\ \E p \in Procs :
                   /\ pc[p] = "fetch" /\ pc'[p] = "score"
                   /\ Expired(artFile[aid], today[p]) ]_vars

\* C24 witness: the second run has saved the store; it holds, unchanged, a
\* classified article the run loaded, and an article the run inserted
\* with an outcome of its own
C24_Witness ==
  \E p \in Procs :
    /\ runs = 2 /\ pc[p] = "score" /\ artFile = store[p]
    /\ \E a \in DOMAIN loaded[p] :
         loaded[p][a].llm # NoLLM /\ artFile[a] = loaded[p][a]
    /\ \E b \in Inserted(p) :
         artFile[b].llm # NoLLM \/ artFile[b].llm_skipped # ""

\* C25: two runs that start from the same article store, the same feed
\* and classifier responses and the same run date, but from different
\* state records, produce the same indicator scores, composite score,
\* bucket and article store
C25_StateNotConsulted ==
  applied = "main" =>
    /\ ret.a.scores = ret.b.scores
    /\ ret.a.total = ret.b.total
    /\ ret.a.bucket = ret.b.bucket
    /\ ret.a.store = ret.b.store

\* two runs that found different state records, one of them of the same
\* day, have each inserted and classified an article
C25_Witness ==
  /\ applied = "main"
  /\ arg.a # arg.b /\ arg.a.last_run_at = arg.day
  /\ \E aid \in DOMAIN ret.a.store \ DOMAIN arg.art :
       ret.a.store[aid].llm # NoLLM
  /\ ret.a.total > 0
  /\ ret.a.state # ret.b.state \/ ret.a.state.last_overall_score = ret.a.total

\* an article of the saved store that a save drops although it is within
\* the retention horizon of the run that saves
Lost(aid) ==
  /\ aid \in DOMAIN artFile /\ aid \notin DOMAIN artFile'
  /\ \A p \in Procs :
       (pc[p] = "fetch" /\ pc'[p] = "score") => ~Expired(artFile[aid], today[p])

\* C26: when the invocations are serialized to at most one at a time, no
\* save drops an article of the saved store that is within the retention
\* horizon; nothing in the program keeps two invocations apart, and when
\* they interleave such a loss is reachable (the witness)
C26_NoLossWhenSerialized ==
  /\ [](arg.schedule = "serialized" =>
          Cardinality({ p \in Procs : pc[p] # "idle" }) <= 1)
  /\ [][ arg.schedule = "serialized" =>
           \A aid \in DOMAIN artFile : ~Lost(aid) ]_vars

\* C26 witness: two invocations interleaved, both have saved the store;
\* an article that one of them inserted and saved is within the retention
\* horizon and missing from the store the other saved last
C26_Witness ==
  \E p, q \in Procs :
    /\ arg.schedule = "overlapping"
    /\ p # q /\ pc[p] = "score" /\ pc[q] = "score"
    /\ artFile = store[p]
    /\ \E aid \in DOMAIN store[q] \ DOMAIN loaded[q] :
         /\ aid \notin DOMAIN artFile
         /\ ~Expired(store[q][aid], today[p])
         /\ ~Expired(store[q][aid], today[q])

\* the outcomes an article carries: a classification result, a skip marker,
\* an error marker
Outcomes(a) ==
  (IF a.llm # NoLLM THEN { "llm" } ELSE {})
  \cup (IF a.llm_skipped # "" THEN { "llm_skipped" } ELSE {})
  \cup (IF a.llm_error # "" THEN { "llm_error" } ELSE {})

\* C27: at the end of a run every article the run inserted carries exactly
\* one of a classification result, a skip marker and an error marker; while
\* the run goes on this holds of every inserted article but the one being
\* classified, which carries none
C27_ExactlyOneOutcome ==
  \A p \in Procs :
    \A aid \in Inserted(p) :
      IF pc[p] = "classify" /\ aid = cur[p]
      THEN Outcomes(store[p][aid]) = {}
      ELSE Cardinality(Outcomes(store[p][aid])) = 1

\* C27 witness: the run has saved the store with an inserted article that
\* carries a classification result and another that carries a skip marker
C27_Witness ==
  \E p \in Procs :
    /\ pc[p] = "score" /\ artFile = store[p]
    /\ \E a, b \in Inserted(p) :
         /\ Outcomes(artFile[a]) = { "llm" }
         /\ Outcomes(artFile[b]) = { "llm_skipped" }

\* the two markers of an article not classified for the budget: the
\* ceiling of the run, and in fast mode the ceiling of the indicator
BudgetMarkers ==
  { "max_llm_calls_per_run", "max_llm_calls_per_item_per_run" }

RECURSIVE SumPerItem(_, _)
SumPerItem(per_item, n) ==
  IF n = 0 THEN 0 ELSE per_item[ITEM_KEYS[n]] + SumPerItem(per_item, n - 1)

\* C28: at the end of a run new_articles = llm_calls + llm_errors +
\* prefilter_skips + the number of articles marked skipped for budget;
\* llm_calls is the number of articles stored with a classification result
\* in the run; the per_item_llm_calls sum to llm_calls
C28_RunStatsAccounting ==
  applied = "fetch_articles_with_llm" =>
    LET new == { ret.store[aid] : aid \in DOMAIN ret.store \ DOMAIN arg.art }
        stats == ret.stats
    IN  /\ stats.new_articles =
             stats.llm_calls + stats.llm_errors + stats.prefilter_skips
             + Cardinality({ a \in new : a.llm_skipped \in BudgetMarkers })
        /\ stats.llm_calls = Cardinality({ a \in new : a.llm # NoLLM })
        /\ SumPerItem(stats.per_item_llm_calls, Len(ITEM_KEYS)) = stats.llm_calls

\* C28 witness: a run in fast mode has classified two articles of one
\* indicator and left a third at the indicator's ceiling
C28_Witness ==
  /\ applied = "fetch_articles_with_llm"
  /\ ret.stats.llm_calls = 2 /\ ret.stats.new_articles = 3
  /\ \E aid \in DOMAIN ret.store :
       ret.store[aid].llm_skipped = "max_llm_calls_per_item_per_run"

=============================================================================
